---- MODULE Spec2Model ----
(***************************************************************************)
(* Concurrent evaluation orchestrator (src/concurrent_evaluator.py):       *)
(* the two-level scheduler that runs sessions over a batch pool and the    *)
(* turns of each session over a per-session pool, collects turn outcomes   *)
(* in completion order and aggregates them into a batch summary.           *)
(* Hooks manager (src/hooks_system.py): the registry of hooks per          *)
(* lifecycle point, execute_hooks over its worker pool, the execution      *)
(* history and its summary.                                                *)
(***************************************************************************)
EXTENDS Integers, Sequences, FiniteSets, TLC

VARIABLES
    sessions,        \* the ConversationSession objects of the run (input, immutable)
    max_workers,     \* ConcurrentEvaluationOrchestrator.max_workers
    pool_fault,      \* per session: whether starting its turn pool raises (environment)
    context,         \* session.context of every session
    turnState,       \* per session and turn: position of the turn's future in the turn pool
    future,          \* per session and turn: the outcome held by the turn's future
    results,         \* per session: the local list `results` of process_conversation_session
    sessState,       \* per session: position of the session's future in the batch pool
    session_results, \* the list `session_results` of run_concurrent_evaluations
    all_results,     \* the dict `all_results` of run_concurrent_evaluations (its key set)
    summary,         \* value of _generate_evaluation_summary, once computed
    batch_return,    \* the dict run_concurrent_evaluations returns, once returned
    pc,              \* position of the calling thread
    session_locks,   \* ConcurrentEvaluationOrchestrator.session_locks: state of each lock
    hooks,           \* HooksManager.hooks: per lifecycle point, the list of its hooks
    execution_history, \* HooksManager.execution_history
    fire,            \* the execute_hooks call in progress or last returned
    hook_calls,      \* number of calls made on the HooksManager
    last_call,       \* the last call made on the HooksManager, with the state it found
    hook_summary,    \* value of the last get_execution_summary call
    fires,           \* per calling thread: its execute_hooks call, when several threads call
    quality_gate,    \* CICDPipeline.quality_gate
    evaluation_history, \* CICDPipeline.evaluation_history
    pipeline_run,    \* the run_evaluation_pipeline call: its position and its locals
    pipeline_runs    \* number of run_evaluation_pipeline calls made

hookVars == <<hooks, execution_history, fire, hook_calls, last_call, hook_summary>>

pipeVars == <<quality_gate, evaluation_history, pipeline_run, pipeline_runs>>

vars == <<sessions, max_workers, pool_fault, context, turnState, future, results, sessState,
          session_results, all_results, summary, batch_return, pc, session_locks, hookVars, fires,
          pipeVars>>

----------------------------------------------------------------------------
(* Bounds of the model *)

\* most turns of one session: of a session run alone through
\* process_conversation_session, and of a batch of one trajectory
MaxTurns == 3
\* most trajectories of a batch
MaxSessions == 2
\* most turns of a batch of several trajectories, over all of them
MaxBatchTurns == 2
\* most session results / most outcomes per session result handed to the summary alone
MaxSummarySessions == 2
MaxSummaryTurns == 2
\* trajectories of a batch whose turn pools are all busy together
PoolSessions == 2
\* most calls made on one HooksManager
MaxHookCalls == 4
\* threads that call execute_hooks of one HooksManager at the same time
FireCallers == 2
\* entries of evaluation_history a regression check is made against
MaxHistory == 4
\* calls of run_evaluation_pipeline on one pipeline
MaxRuns == 3

(* Program constants *)

\* create_conversation_session: max_concurrent_turns=3
DefaultMaxConcurrentTurns == 3
\* HooksManager.__init__: self.max_workers = 5
HooksMaxWorkers == 5
\* _check_performance_regression: len(self.evaluation_history) < 2
MinHistory == 2
\* _check_performance_regression: self.evaluation_history[-3:]
RecentRuns == 3

----------------------------------------------------------------------------
(* Python float: IEEE 754 binary64, round to nearest, ties to even *)

\* A float is held exactly, as the bits of a fixed-point number: bit i of
\* FloatBits has the weight 2^(IntBits - i).  The numbers of this model are
\* 0 or lie in [2^-8, 16), where every binary64 value is such a number.
IntBits == 4
FracBits == 60
FloatBits == 1..(IntBits + FracBits)
Mantissa == 53

RECURSIVE Zeros(_)
Zeros(k) == IF k = 0 THEN <<>> ELSE Append(Zeros(k - 1), 0)

FloatZero == Zeros(IntBits + FracBits)

\* the position of the leading 1 of a number that is not 0
LeadingBit(a) == CHOOSE p \in FloatBits : a[p] = 1 /\ \A j \in FloatBits : j < p => a[j] = 0

Reverse(s) == [i \in 1..Len(s) |-> s[Len(s) + 1 - i]]

\* bits i, i-1, .. 1 (in this order) of a + b + carry, where carry enters at
\* bit i; the sum is below 16
RECURSIVE AddBits(_, _, _, _)
AddBits(a, b, i, carry) ==
    IF i = 0 THEN <<>>
    ELSE <<(a[i] + b[i] + carry) % 2>>
             \o AddBits(a, b, i - 1, (a[i] + b[i] + carry) \div 2)

FixedAdd(a, b) == Reverse(AddBits(a, b, IntBits + FracBits, 0))

\* bits i, i-1, .. 1 (in this order) of a - b - borrow, for a >= b
RECURSIVE SubBits(_, _, _, _)
SubBits(a, b, i, borrow) ==
    IF i = 0 THEN <<>>
    ELSE <<(a[i] - b[i] - borrow + 2) % 2>>
             \o SubBits(a, b, i - 1, IF a[i] - b[i] - borrow < 0 THEN 1 ELSE 0)

FixedSub(a, b) == Reverse(SubBits(a, b, IntBits + FracBits, 0))

float_lt(a, b) ==
    \E i \in FloatBits : a[i] < b[i] /\ \A j \in FloatBits : j < i => a[j] = b[j]

float_le(a, b) == ~float_lt(b, a)

\* the binary64 value nearest to the number a + (a part below the last bit,
\* not 0 iff sticky): the first Mantissa bits are kept, a tie goes to even
float_round(a, sticky) ==
    IF a = FloatZero THEN a
    ELSE LET p == LeadingBit(a)
             last == p + Mantissa - 1
             w == IntBits + FracBits
         IN  IF last >= w THEN a
             ELSE LET kept == SubSeq(a, 1, last) \o Zeros(w - last)
                      rest == sticky \/ \E j \in FloatBits : j > last + 1 /\ a[j] = 1
                      up == a[last + 1] = 1 /\ (rest \/ a[last] = 1)
                      ulp == Zeros(last - 1) \o <<1>> \o Zeros(w - last)
                  IN  IF up THEN FixedAdd(kept, ulp) ELSE kept

\* the first k bits after the point of r / d, for r < d, followed by what
\* is left of r
RECURSIVE RatioBits(_, _, _)
RatioBits(r, d, k) ==
    IF k = 0 THEN <<r>> ELSE <<(2 * r) \div d>> \o RatioBits((2 * r) % d, d, k - 1)

\* n / d of two ints (and the decimal literal n/d), correctly rounded
float_ratio(n, d) ==
    LET q == n \div d
        frac == RatioBits(n % d, d, FracBits)
    IN  float_round([i \in 1..IntBits |-> (q \div (2 ^ (IntBits - i))) % 2]
                        \o SubSeq(frac, 1, FracBits),
                    frac[FracBits + 1] # 0)

float_add(a, b) == float_round(FixedAdd(a, b), FALSE)

\* a - b for a >= b
float_sub(a, b) == float_round(FixedSub(a, b), FALSE)

\* bits i.. of a / n for an int n >= 1 (rem is left of bits 1..i-1),
\* followed by what is left at the end
RECURSIVE DivBits(_, _, _, _)
DivBits(a, n, i, rem) ==
    IF i > Len(a) THEN <<rem>>
    ELSE <<(2 * rem + a[i]) \div n>> \o DivBits(a, n, i + 1, (2 * rem + a[i]) % n)

float_div(a, n) ==
    LET quot == DivBits(a, n, 1, 0)
    IN  float_round(SubSeq(quot, 1, Len(a)), quot[Len(a) + 1] # 0)

\* sum(scores) of a list of floats, from the int 0, in list order
RECURSIVE float_sum(_)
float_sum(scores) ==
    IF scores = <<>> THEN FloatZero
    ELSE float_add(float_sum(SubSeq(scores, 1, Len(scores) - 1)), scores[Len(scores)])

----------------------------------------------------------------------------
(* Values *)

\* keys of driver.create_evaluator's evaluator_map
EvaluatorMap == {"RAG", "TEXT2SQL", "COT", "CUSTOM"}

\* What the evaluator capability does for a turn: returns a result dict that
\* carries 'agent_response', returns a result dict that does not, returns
\* None, or raises (in its constructor or in run_evaluation).
Behaviours == {"ok", "ok_noresp", "none", "raise"}

\* A turn of the input, with the behaviour of its evaluator.  With an
\* evaluation type outside the evaluator map no evaluator is ever created.
TurnKinds ==
    [evaluation_type : {"COT"}, beh : Behaviours]
        \cup [evaluation_type : {"BOGUS"}, beh : {"ok"}]

BatchTurnKinds == [evaluation_type : {"COT"}, beh : {"ok", "none", "raise"}]

\* ConversationTurn: turn_id is the position in the input list, from 0
\* (create_conversation_session, enumerate).
ConversationTurn(i, kind) ==
    [turn_id |-> i, evaluation_type |-> kind.evaluation_type, beh |-> kind.beh]

\* session.context: None (the dataclass default) or a dict
NoneContext == [is_none |-> TRUE, entries |-> <<>>]
EmptyContext == [is_none |-> FALSE, entries |-> <<>>]

NoOutcome == [status |-> "pending"]
NoSummary == [status |-> "pending"]

\* HookType: the lifecycle points
HookType ==
    {"pre_evaluation", "post_evaluation", "pre_session", "post_session", "pre_turn",
     "post_turn", "error_handler", "integration_test", "custom"}

\* no execute_hooks call has been made yet
NoFire == [state |-> "idle"]

\* HooksManager.__init__
HooksManagerInit ==
    /\ hooks = [t \in HookType |-> <<>>]
    /\ execution_history = <<>>
    /\ fire = NoFire
    /\ hook_calls = 0
    /\ last_call = [op |-> "__init__"]
    /\ hook_summary = NoSummary

\* QualityGate(): the defaults of the dataclass and of __post_init__
DefaultQualityGate ==
    [min_success_rate |-> float_ratio(8, 10),
     min_average_score |-> float_ratio(7, 10),
     max_execution_time |-> 300,
     max_failed_turns |-> 5,
     required_metrics |-> <<"helpfulness", "faithfulness", "instruction_following">>]

\* run_evaluation_pipeline has not been called
NoRun == [stage |-> "Idle"]

\* CICDPipeline.__init__ with the default gate; no thread calls execute_hooks
CICDPipelineInit ==
    /\ fires = <<>>
    /\ quality_gate = DefaultQualityGate
    /\ evaluation_history = <<>>
    /\ pipeline_run = NoRun
    /\ pipeline_runs = 0

\* the agent response an evaluator reports for a turn
AgentResponse(sid, turn) == <<sid, turn.turn_id>>

----------------------------------------------------------------------------
(* evaluate_single_turn and create_evaluator *)

\* driver.create_evaluator: TRUE iff it raises ValueError (unknown evaluation
\* type); otherwise the evaluator class is instantiated.
create_evaluator_raises(eval_type) == eval_type \notin EvaluatorMap

\* The dict an evaluator returns on success: with or without 'agent_response'.
EvaluatorResult(sid, turn) ==
    IF turn.beh = "ok"
    THEN [question_id |-> turn.turn_id, agent_response |-> AgentResponse(sid, turn)]
    ELSE [question_id |-> turn.turn_id]

\* Variant of evaluate_single_turn that reports a None result as 'error'.
evaluate_single_turn_NoneAsError(sid, turn) ==
    IF create_evaluator_raises(turn.evaluation_type) \/ turn.beh \in {"raise", "none"}
    THEN [session_id |-> sid, turn_id |-> turn.turn_id, status |-> "error",
          error |-> "evaluator fault"]
    ELSE [session_id |-> sid, turn_id |-> turn.turn_id, status |-> "success",
          results |-> EvaluatorResult(sid, turn)]

\* evaluate_single_turn: the dict it returns.  The whole body is inside one
\* try/except Exception, so a fault of create_evaluator, of the evaluator's
\* constructor or of run_evaluation gives the 'error' outcome.
evaluate_single_turn(sid, turn) ==
    IF create_evaluator_raises(turn.evaluation_type) \/ turn.beh = "raise"
    THEN [session_id |-> sid, turn_id |-> turn.turn_id, status |-> "error",
          error |-> "evaluator fault"]
    ELSE IF turn.beh = "none"
    THEN [session_id |-> sid, turn_id |-> turn.turn_id, status |-> "failed",
          error |-> "Evaluation returned None"]
    ELSE [session_id |-> sid, turn_id |-> turn.turn_id, status |-> "success",
          results |-> EvaluatorResult(sid, turn)]

----------------------------------------------------------------------------
(* _update_session_context *)

\* Variant with one key for all turns.
ContextKey_Shared(turn) == 0

\* The key f'turn_{turn_id}_response' is an injective image of turn_id; the
\* model keys the context map by turn_id.
ContextKey(turn) == turn.turn_id

\* Variant of _update_session_context that rebinds the context to a dict
\* holding the new entry alone.
update_session_context_Rebinds(ctx, turn, result) ==
    IF "results" \in DOMAIN result /\ "agent_response" \in DOMAIN result.results
    THEN IF ctx.is_none
         THEN [raised |-> TRUE, context |-> ctx]
         ELSE [raised |-> FALSE,
               context |->
                 [ctx EXCEPT !.entries =
                    [k \in {ContextKey(turn)} |-> result.results.agent_response]]]
    ELSE [raised |-> FALSE, context |-> ctx]

\* _update_session_context: [raised, context].  The item assignment raises
\* TypeError when session.context is None.
update_session_context(ctx, turn, result) ==
    IF "results" \in DOMAIN result /\ "agent_response" \in DOMAIN result.results
    THEN IF ctx.is_none
         THEN [raised |-> TRUE, context |-> ctx]
         ELSE [raised |-> FALSE,
               context |->
                 [ctx EXCEPT !.entries =
                    [k \in DOMAIN ctx.entries \cup {ContextKey(turn)} |->
                        IF k = ContextKey(turn)
                        THEN result.results.agent_response
                        ELSE ctx.entries[k]]]]
    ELSE [raised |-> FALSE, context |-> ctx]

\* The body of the as_completed loop of process_conversation_session for one
\* completed future: [results, context].  results.append(result) is inside
\* the try block, before the context update; the except branch appends an
\* 'exception' outcome for the same turn.
CollectBody(res, ctx, sid, turn, result) ==
    LET appended == Append(res, result)
        upd == update_session_context(ctx, turn, result)
    IN  IF result.status = "success"
        THEN IF upd.raised
             THEN [results |-> Append(appended,
                                  [session_id |-> sid, turn_id |-> turn.turn_id,
                                   status |-> "exception",
                                   error |-> "context update fault"]),
                   context |-> upd.context]
             ELSE [results |-> appended, context |-> upd.context]
        ELSE [results |-> appended, context |-> ctx]

----------------------------------------------------------------------------
(* _generate_evaluation_summary *)

\* the turn outcomes the loop visits: those of the session results that have
\* a 'results' key, in list order
RECURSIVE TurnOutcomes(_)
TurnOutcomes(srs) ==
    IF srs = <<>> THEN <<>>
    ELSE (IF "results" \in DOMAIN Head(srs) THEN Head(srs).results ELSE <<>>)
            \o TurnOutcomes(Tail(srs))

CountStatus(outs, st) == Cardinality({i \in 1..Len(outs) : outs[i].status = st})

RECURSIVE GCD(_, _)
GCD(a, b) == IF b = 0 THEN a ELSE GCD(b, a % b)

\* the quotient a / b of two naturals, b > 0, as a fraction in lowest terms
Quotient(a, b) == [num |-> a \div GCD(a, b), den |-> b \div GCD(a, b)]
Zero == [num |-> 0, den |-> 1]

\* Variant of SuccessRate with floor division.
SuccessRate_FloorDiv(successful_turns, total_turns) ==
    IF total_turns > 0
    THEN [num |-> successful_turns \div total_turns, den |-> 1]
    ELSE Zero

\* successful_turns / total_turns if total_turns > 0 else 0.0
SuccessRate(successful_turns, total_turns) ==
    IF total_turns > 0 THEN Quotient(successful_turns, total_turns) ELSE Zero

\* the keys of average_scores in a summary of _generate_evaluation_summary
SummaryMetrics == {"helpfulness", "faithfulness", "instruction_following", "overall"}

\* metric_name.lower(), on the metric names of the model
lower(metric_name) ==
    IF metric_name = "Helpfulness" THEN "helpfulness" ELSE metric_name

\* a metrics_scores dict is the sequence of its items, in dict order; the
\* scores it adds to the list of a tracked metric
RECURSIVE MetricsScores(_, _)
MetricsScores(metrics_scores, metric) ==
    IF metrics_scores = <<>> THEN <<>>
    ELSE (IF /\ "score" \in DOMAIN Head(metrics_scores).metric_data
             /\ lower(Head(metrics_scores).metric_name) = metric
          THEN <<Head(metrics_scores).metric_data.score>>
          ELSE <<>>)
            \o MetricsScores(Tail(metrics_scores), metric)

\* the scores one turn result adds to the list of a tracked metric
TurnScores(turn_result, metric) ==
    IF turn_result.status # "success" THEN <<>>
    ELSE IF "results" \notin DOMAIN turn_result THEN <<>>
    ELSE IF "evaluation_results" \notin DOMAIN turn_result.results THEN <<>>
    ELSE IF "metrics_scores" \notin DOMAIN turn_result.results.evaluation_results THEN <<>>
    ELSE MetricsScores(turn_result.results.evaluation_results.metrics_scores, metric)

\* evaluation_scores[metric] after the loop over the turn results
RECURSIVE evaluation_scores(_, _)
evaluation_scores(outs, metric) ==
    IF outs = <<>> THEN <<>>
    ELSE TurnScores(Head(outs), metric) \o evaluation_scores(Tail(outs), metric)

\* Variant of avg_scores that divides by the number of successful turns.
AverageScores_PerSuccessfulTurn(outs) ==
    [metric \in SummaryMetrics |->
        IF evaluation_scores(outs, metric) # <<>>
        THEN float_div(float_sum(evaluation_scores(outs, metric)),
                       CountStatus(outs, "success"))
        ELSE FloatZero]

\* avg_scores: sum(scores) / len(scores) per tracked metric, 0.0 without scores
AverageScores(outs) ==
    [metric \in SummaryMetrics |->
        IF evaluation_scores(outs, metric) # <<>>
        THEN float_div(float_sum(evaluation_scores(outs, metric)),
                       Len(evaluation_scores(outs, metric)))
        ELSE FloatZero]

\* Variant of _generate_evaluation_summary whose counters start again at
\* every session result: only the last one that has results is counted.
RECURSIVE LastWithResults(_)
LastWithResults(srs) ==
    IF srs = <<>> THEN <<>>
    ELSE IF "results" \in DOMAIN srs[Len(srs)] THEN srs[Len(srs)].results
    ELSE LastWithResults(SubSeq(srs, 1, Len(srs) - 1))

generate_evaluation_summary_CountersReset(srs) ==
    LET outs == LastWithResults(srs)
    IN  [total_turns |-> Len(outs),
         successful_turns |-> CountStatus(outs, "success"),
         failed_turns |-> CountStatus(outs, "failed"),
         error_turns |-> CountStatus(outs, "error"),
         success_rate |-> SuccessRate(CountStatus(outs, "success"), Len(outs)),
         average_scores |-> AverageScores(outs),
         total_sessions |-> Len(srs)]

\* Variant of _generate_evaluation_summary that counts 'failed' outcomes as
\* error_turns and 'error' outcomes as failed_turns.
generate_evaluation_summary_Swapped(srs) ==
    LET outs == TurnOutcomes(srs)
    IN  [total_turns |-> Len(outs),
         successful_turns |-> CountStatus(outs, "success"),
         failed_turns |-> CountStatus(outs, "error"),
         error_turns |-> CountStatus(outs, "failed"),
         success_rate |-> SuccessRate(CountStatus(outs, "success"), Len(outs)),
         average_scores |-> AverageScores(outs),
         total_sessions |-> Len(srs)]

generate_evaluation_summary(srs) ==
    LET outs == TurnOutcomes(srs)
        total_turns == Len(outs)
        successful_turns == CountStatus(outs, "success")
        failed_turns == CountStatus(outs, "failed")
        error_turns == CountStatus(outs, "error")
    IN  [total_turns |-> total_turns,
         successful_turns |-> successful_turns,
         failed_turns |-> failed_turns,
         error_turns |-> error_turns,
         success_rate |-> SuccessRate(successful_turns, total_turns),
         average_scores |-> AverageScores(outs),
         total_sessions |-> Len(srs)]

----------------------------------------------------------------------------
(* Sessions *)

SeqsUpTo(S, n) == UNION {[1..k -> S] : k \in 0..n}

\* ConversationSession; session_id (a fresh uuid4) and trajectory_id (a key
\* of the input dict) are both unique in a run and modelled by the index.
ConversationSession(sid, kinds, bound) ==
    [session_id |-> sid,
     trajectory_id |-> sid,
     turns |-> [i \in 1..Len(kinds) |-> ConversationTurn(i - 1, kinds[i])],
     max_concurrent_turns |-> bound]

\* create_conversation_session: context={} and max_concurrent_turns=3
create_conversation_session(sid, kinds) ==
    ConversationSession(sid, kinds, DefaultMaxConcurrentTurns)

Sessions == 1..Len(sessions)
Turns(s) == 1..Len(sessions[s].turns)

Running(s) == {i \in Turns(s) : turnState[s][i] = "running"}

\* Variant in which a batch worker is not given back when its session ends.
RunningSessions_NeverReleased == {s \in Sessions : sessState[s] \notin {"unsubmitted", "queued"}}

RunningSessions == {s \in Sessions : sessState[s] = "running"}

----------------------------------------------------------------------------
(* process_conversation_session *)

\* A worker of the session's ThreadPoolExecutor takes the next queued turn
\* (the work queue is first in, first out) when fewer than
\* max_concurrent_turns workers are busy.
\* Variant with one pool of max_concurrent_turns workers for all sessions.
TurnMayStart_SharedPool(s, i) ==
    /\ turnState[s][i] = "queued"
    /\ \A j \in Turns(s) : j < i => turnState[s][j] # "queued"
    /\ Cardinality({<<r, j>> \in UNION {{<<r, j>> : j \in Turns(r)} : r \in Sessions} :
                       turnState[r][j] = "running"}) < sessions[s].max_concurrent_turns

TurnMayStart(s, i) ==
    /\ turnState[s][i] = "queued"
    /\ \A j \in Turns(s) : j < i => turnState[s][j] # "queued"
    /\ Cardinality(Running(s)) < sessions[s].max_concurrent_turns

StartTurn(s, i) ==
    /\ sessState[s] = "running"
    /\ TurnMayStart(s, i)
    /\ turnState' = [turnState EXCEPT ![s][i] = "running"]
    /\ UNCHANGED <<session_locks, hookVars, fires, pipeVars, sessions, max_workers, pool_fault,
                   context, future, results, sessState,
                   session_results, all_results, summary, batch_return, pc>>

\* Variant with a timeout per call: a call that never returns is given up
\* and its future holds an 'error' outcome.
FinishTurn_TimesOut(s, i) ==
    /\ sessState[s] = "running"
    /\ turnState[s][i] = "running"
    /\ turnState' = [turnState EXCEPT ![s][i] = "done"]
    /\ future' = [future EXCEPT ![s][i] =
                     IF sessions[s].turns[i].beh = "hang"
                     THEN [session_id |-> sessions[s].session_id,
                           turn_id |-> sessions[s].turns[i].turn_id,
                           status |-> "error", error |-> "timeout"]
                     ELSE evaluate_single_turn(sessions[s].session_id, sessions[s].turns[i])]
    /\ UNCHANGED <<session_locks, hookVars, fires, pipeVars, sessions, max_workers, pool_fault,
                   context, results, sessState,
                   session_results, all_results, summary, batch_return, pc>>

\* The worker runs evaluate_single_turn to its end; the future holds its
\* value.  There is no timeout: while the evaluator's call has not returned
\* (beh "hang": it never does) the worker stays in it.
FinishTurn(s, i) ==
    /\ sessState[s] = "running"
    /\ turnState[s][i] = "running"
    /\ sessions[s].turns[i].beh # "hang"
    /\ turnState' = [turnState EXCEPT ![s][i] = "done"]
    /\ future' = [future EXCEPT ![s][i] =
                     evaluate_single_turn(sessions[s].session_id, sessions[s].turns[i])]
    /\ UNCHANGED <<session_locks, hookVars, fires, pipeVars, sessions, max_workers, pool_fault,
                   context, results, sessState,
                   session_results, all_results, summary, batch_return, pc>>

\* as_completed hands a completed future to the loop body, which runs in the
\* thread of process_conversation_session.
CollectTurn(s, i) ==
    /\ sessState[s] = "running"
    /\ turnState[s][i] = "done"
    /\ LET body == CollectBody(results[s], context[s], sessions[s].session_id,
                               sessions[s].turns[i], future[s][i])
       IN  /\ results' = [results EXCEPT ![s] = body.results]
           /\ context' = [context EXCEPT ![s] = body.context]
    /\ turnState' = [turnState EXCEPT ![s][i] = "collected"]
    /\ UNCHANGED <<session_locks, hookVars, fires, pipeVars, sessions, max_workers, pool_fault,
                   future, sessState,
                   session_results, all_results, summary, batch_return, pc>>

\* every future has been handed out: the executor is shut down and the list
\* is returned
\* Variant in which the collecting loop ends at the first 'error' outcome.
SessionMayReturn_StopsAtFault(s) ==
    \/ \A i \in Turns(s) : turnState[s][i] = "collected"
    \/ \E i \in Turns(s) : turnState[s][i] = "collected" /\ future[s][i].status = "error"

SessionMayReturn(s) == \A i \in Turns(s) : turnState[s][i] = "collected"

ReturnSession(s) ==
    /\ sessState[s] = "running"
    /\ SessionMayReturn(s)
    /\ sessState' = [sessState EXCEPT ![s] = "returned"]
    /\ UNCHANGED <<session_locks, hookVars, fires, pipeVars, sessions, max_workers, pool_fault,
                   context, turnState, future, results,
                   session_results, all_results, summary, batch_return, pc>>

\* One session run alone: process_conversation_session is called with a
\* ConversationSession built directly (context None by default, or a dict).
InitSession ==
    /\ \E kinds \in SeqsUpTo(TurnKinds, MaxTurns) :
       \E bound \in {1, DefaultMaxConcurrentTurns} \cup ({Len(kinds)} \ {0}) :
          sessions = <<ConversationSession(1, kinds, bound)>>
    /\ max_workers = 1
    /\ pool_fault = [s \in {1} |-> FALSE]
    /\ context \in [{1} -> {NoneContext, EmptyContext}]
    /\ turnState = [s \in {1} |-> [i \in 1..Len(sessions[1].turns) |-> "queued"]]
    /\ future = [s \in {1} |-> [i \in 1..Len(sessions[1].turns) |-> NoOutcome]]
    /\ results = [s \in {1} |-> <<>>]
    /\ sessState = [s \in {1} |-> "running"]
    /\ session_results = <<>>
    /\ all_results = {}
    /\ summary = NoSummary
    /\ batch_return = NoSummary
    /\ pc = "session"
    \* the session was not made by create_conversation_session: it has no lock
    /\ session_locks = <<>>
    /\ HooksManagerInit
    /\ CICDPipelineInit

NextSession ==
    \/ \E s \in Sessions : \E i \in Turns(s) : StartTurn(s, i)
    \/ \E s \in Sessions : \E i \in Turns(s) : FinishTurn(s, i)
    \/ \E s \in Sessions : \E i \in Turns(s) : CollectTurn(s, i)
    \/ \E s \in Sessions : ReturnSession(s)

SpecSession == InitSession /\ [][NextSession]_vars

----------------------------------------------------------------------------
(* run_concurrent_evaluations *)

\* A worker of the batch ThreadPoolExecutor takes the next queued session
\* (first in, first out) when fewer than max_workers workers are busy.
\* Variant of the batch pool with a worker for every session.
SessionMayStart_Unbounded(s) ==
    /\ sessState[s] = "queued"
    /\ \A r \in Sessions : r < s => sessState[r] # "queued"

SessionMayStart(s) ==
    /\ sessState[s] = "queued"
    /\ \A r \in Sessions : r < s => sessState[r] # "queued"
    /\ Cardinality(RunningSessions) < max_workers

\* process_conversation_session begins: it submits every turn to a fresh
\* turn pool.
StartSession(s) ==
    /\ pc = "batch"
    /\ SessionMayStart(s)
    /\ ~pool_fault[s]
    /\ sessState' = [sessState EXCEPT ![s] = "running"]
    /\ turnState' = [turnState EXCEPT ![s] = [i \in Turns(s) |-> "queued"]]
    /\ UNCHANGED <<session_locks, hookVars, fires, pipeVars, sessions, max_workers, pool_fault,
                   context, future, results,
                   session_results, all_results, summary, batch_return, pc>>

\* process_conversation_session raises before any turn runs (its turn pool
\* cannot start a thread): the session's future holds the exception.
SessionRaises(s) ==
    /\ pc = "batch"
    /\ SessionMayStart(s)
    /\ pool_fault[s]
    /\ sessState' = [sessState EXCEPT ![s] = "raised"]
    /\ UNCHANGED <<session_locks, hookVars, fires, pipeVars, sessions, max_workers, pool_fault,
                   context, turnState, future,
                   results, session_results, all_results, summary, batch_return, pc>>

\* the entry appended to session_results for a completed session future
SessionResult(s) ==
    IF sessState[s] = "returned"
    THEN [session_id |-> sessions[s].session_id,
          trajectory_id |-> sessions[s].trajectory_id,
          results |-> results[s],
          context |-> context[s]]
    ELSE [session_id |-> sessions[s].session_id,
          trajectory_id |-> sessions[s].trajectory_id,
          error |-> "session fault",
          status |-> "failed"]

\* Variant of the loop body that records nothing for a session that raised.
CollectSession_DropsFailed(s) ==
    /\ pc = "batch"
    /\ sessState[s] \in {"returned", "raised"}
    /\ session_results' = IF sessState[s] = "returned"
                          THEN Append(session_results, SessionResult(s))
                          ELSE session_results
    /\ all_results' = IF sessState[s] = "returned"
                      THEN all_results \cup {sessions[s].trajectory_id}
                      ELSE all_results
    /\ sessState' = [sessState EXCEPT ![s] = "collected"]
    /\ UNCHANGED <<session_locks, hookVars, fires, pipeVars, sessions, max_workers, pool_fault,
                   context, turnState, future,
                   results, summary, batch_return, pc>>

\* The body of the as_completed loop of run_concurrent_evaluations for one
\* completed session future.
CollectSession(s) ==
    /\ pc = "batch"
    /\ sessState[s] \in {"returned", "raised"}
    /\ session_results' = Append(session_results, SessionResult(s))
    /\ all_results' = IF sessState[s] = "returned"
                      THEN all_results \cup {sessions[s].trajectory_id}
                      ELSE all_results
    /\ sessState' = [sessState EXCEPT ![s] = "collected"]
    /\ UNCHANGED <<session_locks, hookVars, fires, pipeVars, sessions, max_workers, pool_fault,
                   context, turnState, future,
                   results, summary, batch_return, pc>>

RECURSIVE TotalTurns(_)
TotalTurns(ss) == IF ss = <<>> THEN 0 ELSE Len(Head(ss).turns) + TotalTurns(Tail(ss))

\* the dict run_concurrent_evaluations returns
BatchReturn(sm, srs, all) ==
    [summary |-> sm,
     sessions |-> srs,
     all_results |-> all,
     total_sessions |-> Len(sessions),
     total_turns |-> TotalTurns(sessions)]

\* every session future has been handed out: the summary is generated and
\* run_concurrent_evaluations returns
Summarize ==
    /\ pc = "batch"
    /\ \A s \in Sessions : sessState[s] = "collected"
    /\ summary' = generate_evaluation_summary(session_results)
    /\ batch_return' = BatchReturn(summary', session_results, all_results)
    /\ pc' = "done"
    /\ UNCHANGED <<session_locks, hookVars, fires, pipeVars, sessions, max_workers, pool_fault,
                   context, turnState, future,
                   results, sessState, session_results, all_results>>

\* the trajectories of a batch: at most MaxSessions of them with at most
\* MaxBatchTurns turns in all, or one of at most MaxTurns turns
RECURSIVE InputsOf(_, _)
InputsOf(n, budget) ==
    IF n = 0 THEN {<<>>}
    ELSE UNION {{<<k>> \o rest : rest \in InputsOf(n - 1, budget - Len(k))} :
                    k \in SeqsUpTo(BatchTurnKinds, budget)}

BatchInputs ==
    UNION {InputsOf(n, MaxBatchTurns) : n \in 0..MaxSessions}
        \cup {<<k>> : k \in SeqsUpTo(BatchTurnKinds, MaxTurns)}

\* run_concurrent_evaluations after it has built its sessions with
\* create_conversation_session and submitted them to the batch pool
Init ==
    /\ \E ks \in BatchInputs :
          sessions = [s \in 1..Len(ks) |-> create_conversation_session(s, ks[s])]
    /\ max_workers \in {1, 2}
    /\ pool_fault \in [Sessions -> BOOLEAN]
    \* no evaluator of a session that raises is ever created: their
    \* behaviours are not part of the input
    /\ \A s \in Sessions : pool_fault[s] =>
          \A i \in Turns(s) : sessions[s].turns[i].beh = "ok"
    /\ context = [s \in Sessions |-> EmptyContext]
    /\ turnState = [s \in Sessions |-> [i \in Turns(s) |-> "unsubmitted"]]
    /\ future = [s \in Sessions |-> [i \in Turns(s) |-> NoOutcome]]
    /\ results = [s \in Sessions |-> <<>>]
    /\ sessState = [s \in Sessions |-> "queued"]
    /\ session_results = <<>>
    /\ all_results = {}
    /\ summary = NoSummary
    /\ batch_return = NoSummary
    /\ pc = "batch"
    \* create_conversation_session: a fresh threading.Lock() per session
    /\ session_locks = [s \in Sessions |-> "unlocked"]
    /\ HooksManagerInit
    /\ CICDPipelineInit

Next ==
    \/ \E s \in Sessions : StartSession(s)
    \/ \E s \in Sessions : SessionRaises(s)
    \/ \E s \in Sessions : \E i \in Turns(s) : StartTurn(s, i)
    \/ \E s \in Sessions : \E i \in Turns(s) : FinishTurn(s, i)
    \/ \E s \in Sessions : \E i \in Turns(s) : CollectTurn(s, i)
    \/ \E s \in Sessions : ReturnSession(s)
    \/ \E s \in Sessions : CollectSession(s)
    \/ Summarize

Spec == Init /\ [][Next]_vars

\* A batch of PoolSessions trajectories, the first with one turn more than
\* its turn pool has workers, the others of one turn: the first pool can be
\* full while the other pools are busy.
InitPools ==
    /\ sessions = [s \in 1..PoolSessions |->
                      create_conversation_session(s,
                          [i \in 1..(IF s = 1 THEN DefaultMaxConcurrentTurns + 1 ELSE 1) |->
                              [evaluation_type |-> "COT", beh |-> "ok"]])]
    /\ max_workers \in {1, PoolSessions}
    /\ pool_fault \in [Sessions -> BOOLEAN]
    /\ context = [s \in Sessions |-> EmptyContext]
    /\ turnState = [s \in Sessions |-> [i \in Turns(s) |-> "unsubmitted"]]
    /\ future = [s \in Sessions |-> [i \in Turns(s) |-> NoOutcome]]
    /\ results = [s \in Sessions |-> <<>>]
    /\ sessState = [s \in Sessions |-> "queued"]
    /\ session_results = <<>>
    /\ all_results = {}
    /\ summary = NoSummary
    /\ batch_return = NoSummary
    /\ pc = "batch"
    /\ session_locks = [s \in Sessions |-> "unlocked"]
    /\ HooksManagerInit
    /\ CICDPipelineInit

\* A batch of two trajectories, the first with one turn more than its turn
\* pool has workers, the second of one turn, in which at most one thing
\* goes wrong: one evaluator call never returns, raises or returns None, or
\* the processing of one session raises.  <<0, 0>> is no such turn.
FaultPlaces ==
    {<<0, 0>>, <<2, 1>>} \cup {<<1, i>> : i \in 1..(DefaultMaxConcurrentTurns + 1)}

InitFair ==
    /\ \E place \in FaultPlaces : \E beh \in {"hang", "raise", "none"} :
          sessions =
              <<create_conversation_session(1,
                    [i \in 1..(DefaultMaxConcurrentTurns + 1) |->
                        [evaluation_type |-> "COT",
                         beh |-> IF place = <<1, i>> THEN beh ELSE "ok"]]),
                create_conversation_session(2,
                    <<[evaluation_type |-> "COT",
                       beh |-> IF place = <<2, 1>> THEN beh ELSE "ok"]>>)>>
    /\ max_workers \in {1, 2}
    /\ \E faulty \in {0} \cup Sessions : pool_fault = [s \in Sessions |-> s = faulty]
    /\ \A s \in Sessions : pool_fault[s] =>
          \A i \in Turns(s) : sessions[s].turns[i].beh = "ok"
    /\ context = [s \in Sessions |-> EmptyContext]
    /\ turnState = [s \in Sessions |-> [i \in Turns(s) |-> "unsubmitted"]]
    /\ future = [s \in Sessions |-> [i \in Turns(s) |-> NoOutcome]]
    /\ results = [s \in Sessions |-> <<>>]
    /\ sessState = [s \in Sessions |-> "queued"]
    /\ session_results = <<>>
    /\ all_results = {}
    /\ summary = NoSummary
    /\ batch_return = NoSummary
    /\ pc = "batch"
    /\ session_locks = [s \in Sessions |-> "unlocked"]
    /\ HooksManagerInit
    /\ CICDPipelineInit

\* Every thread of the pools is scheduled: a step that can be taken is
\* taken at last.
SpecFair == InitFair /\ [][Next]_vars /\ WF_vars(Next)

\* the turn pools: of a session run alone with any bound, and of the sessions
\* of a batch
InitTurnPools == InitSession \/ InitPools

SpecPools == InitTurnPools /\ [][Next]_vars

----------------------------------------------------------------------------
(* _generate_evaluation_summary on its own *)

\* the outcome dicts process_conversation_session can put in its list
OutcomeOfStatus(sid, tid, st) ==
    IF st = "success"
    THEN [session_id |-> sid, turn_id |-> tid, status |-> st,
          results |-> [question_id |-> tid, agent_response |-> <<sid, tid>>]]
    ELSE [session_id |-> sid, turn_id |-> tid, status |-> st, error |-> "fault"]

Statuses == {"success", "failed", "error", "exception"}

\* a session result: of a session that raised (no status list), or of a
\* session that returned the outcomes with the given statuses
SessionResultOf(sid, shape) ==
    IF shape.raised
    THEN [session_id |-> sid, trajectory_id |-> sid, error |-> "session fault",
          status |-> "failed"]
    ELSE [session_id |-> sid, trajectory_id |-> sid,
          results |-> [i \in 1..Len(shape.statuses) |->
                          OutcomeOfStatus(sid, i - 1, shape.statuses[i])],
          context |-> EmptyContext]

SummaryShapes ==
    [raised : {TRUE}, statuses : {<<>>}]
        \cup [raised : {FALSE}, statuses : SeqsUpTo(Statuses, MaxSummaryTurns)]

InitSummary ==
    /\ sessions = <<>>
    /\ max_workers = 1
    /\ pool_fault = <<>>
    /\ context = <<>>
    /\ turnState = <<>>
    /\ future = <<>>
    /\ results = <<>>
    /\ sessState = <<>>
    /\ \E shapes \in SeqsUpTo(SummaryShapes, MaxSummarySessions) :
          session_results = [s \in 1..Len(shapes) |-> SessionResultOf(s, shapes[s])]
    /\ all_results = {}
    /\ summary = NoSummary
    /\ batch_return = NoSummary
    /\ pc = "summary"
    /\ session_locks = <<>>
    /\ HooksManagerInit
    /\ CICDPipelineInit

ApplySummary ==
    /\ pc = "summary"
    /\ summary' = generate_evaluation_summary(session_results)
    /\ pc' = "done"
    /\ UNCHANGED <<session_locks, hookVars, fires, pipeVars, sessions, max_workers, pool_fault,
                   context, turnState, future,
                   results, sessState, session_results, all_results, batch_return>>

NextSummary == ApplySummary

SpecSummary == InitSummary /\ [][NextSummary]_vars

----------------------------------------------------------------------------
(* HooksManager (src/hooks_system.py): the registry *)

HookNames == {"a", "b"}

\* A hook object: a CustomHook (its execute catches the fault of its
\* function and returns a 'failed' record) or a DataValidationHook (its
\* execute has no handler: a fault leaves it as an exception).
Hook(name, hook_type, priority, cls, faults, enabled) ==
    [name |-> name, hook_type |-> hook_type, priority |-> priority, cls |-> cls,
     faults |-> faults, enabled |-> enabled]

\* the hook objects the callers hold
HookCatalogue ==
    {Hook("a", "pre_evaluation", 1, "CustomHook", FALSE, TRUE),
     Hook("b", "pre_evaluation", 1, "CustomHook", TRUE, TRUE),
     Hook("a", "pre_evaluation", 0, "DataValidationHook", TRUE, TRUE),
     Hook("b", "pre_evaluation", 0, "DataValidationHook", FALSE, TRUE),
     Hook("b", "post_evaluation", 0, "CustomHook", FALSE, TRUE),
     Hook("a", "post_evaluation", 1, "CustomHook", FALSE, FALSE)}

\* the lifecycle points the callers name
CalledHookTypes == {"pre_evaluation", "post_evaluation"}

\* BaseHook.__lt__
lt_Ascending(self, other) == self.priority < other.priority

lt(self, other) == self.priority > other.priority

\* list.sort(): a stable sort by __lt__.  One step of it: h goes before the
\* first element it is less than, after every element it is not less than.
SortInsert(s, h) ==
    LET before == {i \in 1..Len(s) : lt(h, s[i])}
        pos == IF before = {} THEN Len(s) + 1
               ELSE CHOOSE i \in before : \A j \in before : i <= j
    IN  SubSeq(s, 1, pos - 1) \o <<h>> \o SubSeq(s, pos, Len(s))

RECURSIVE sort(_)
sort(list) ==
    IF list = <<>> THEN <<>>
    ELSE SortInsert(sort(SubSeq(list, 1, Len(list) - 1)), list[Len(list)])

\* register_hook: the list of the hook's lifecycle point after the call.
\* An entry of the list is the hook object with the number of the call that
\* registered it.
register_hook(list, hook, call) ==
    IF hook.enabled
    THEN sort(Append(list, hook @@ [reg |-> call]))
    ELSE list

\* Variant that removes only the first hook of that name.
RECURSIVE unregister_hook_FirstOnly(_, _)
unregister_hook_FirstOnly(list, hook_name) ==
    IF list = <<>> THEN <<>>
    ELSE IF Head(list).name = hook_name THEN Tail(list)
    ELSE <<Head(list)>> \o unregister_hook_FirstOnly(Tail(list), hook_name)

\* unregister_hook: the list comprehension
RECURSIVE unregister_hook(_, _)
unregister_hook(list, hook_name) ==
    IF list = <<>> THEN <<>>
    ELSE (IF Head(list).name # hook_name THEN <<Head(list)>> ELSE <<>>)
             \o unregister_hook(Tail(list), hook_name)

\* one caller uses the manager: a call begins when none is in progress
ManagerFree == pc = "hooks" /\ fire.state # "running" /\ hook_calls < MaxHookCalls

orchVars == <<sessions, max_workers, pool_fault, context, turnState, future, results,
              sessState, session_results, all_results, summary, batch_return, pc,
              session_locks>>

RegisterHook(hook) ==
    /\ ManagerFree
    /\ hooks' = [hooks EXCEPT ![hook.hook_type] =
                    register_hook(hooks[hook.hook_type], hook, hook_calls + 1)]
    /\ hook_calls' = hook_calls + 1
    /\ last_call' = [op |-> "register_hook", hook |-> hook, hooks |-> hooks,
                     execution_history |-> execution_history]
    /\ UNCHANGED <<orchVars, fires, pipeVars, execution_history, fire, hook_summary>>

UnregisterHook(hook_name, hook_type) ==
    /\ ManagerFree
    /\ hooks' = [hooks EXCEPT ![hook_type] = unregister_hook(hooks[hook_type], hook_name)]
    /\ hook_calls' = hook_calls + 1
    /\ last_call' = [op |-> "unregister_hook", hook_name |-> hook_name,
                     hook_type |-> hook_type, hooks |-> hooks,
                     execution_history |-> execution_history]
    /\ UNCHANGED <<orchVars, fires, pipeVars, execution_history, fire, hook_summary>>

----------------------------------------------------------------------------
(* HooksManager: execute_hooks *)

\* hook.execute(context): the record it returns, or that it raises
hook_execute(hook) ==
    IF hook.cls \in {"CustomHook", "IntegrationTestHook"}
    THEN [raised |-> FALSE,
          record |-> [status |-> IF hook.faults THEN "failed" ELSE "success",
                      hook_name |-> hook.name]]
    ELSE IF hook.faults
    THEN [raised |-> TRUE, record |-> NoOutcome]
    ELSE [raised |-> FALSE, record |-> [status |-> "success", hook_name |-> hook.name]]

\* Variant that reports an exception of hook.execute as a 'failed' record.
HookRecord_AsFailed(hook, outcome) ==
    IF outcome.raised
    THEN [status |-> "failed", hook_name |-> hook.name]
    ELSE outcome.record

\* the try/except around hook.execute / future.result(): the record appended
\* to results
HookRecord(hook, outcome) ==
    IF outcome.raised
    THEN [status |-> "exception", hook_name |-> hook.name]
    ELSE outcome.record

\* the entry appended to execution_history (its timestamp, the clock's value
\* at the append, is left out); the HookContext of a call is identified by
\* the number of the call
HistoryEntry(hook_type, ctx, res) ==
    [hook_type |-> hook_type, context |-> ctx, results |-> res]

\* an execute_hooks call: in progress over its pool, or returned
Fire(state, hook_type, ctx, list, hstate, fut, completed, collected, res) ==
    [state |-> state, hook_type |-> hook_type, context |-> ctx, hooks |-> list,
     hstate |-> hstate, future |-> fut, completed |-> completed,
     collected |-> collected, results |-> res]

\* Variant that records a firing, with no records, for a lifecycle point
\* without hooks.
ExecuteHooks_RecordsEmpty(hook_type) ==
    /\ ManagerFree
    /\ hook_calls' = hook_calls + 1
    /\ last_call' = [op |-> "execute_hooks", hook_type |-> hook_type, hooks |-> hooks,
                     execution_history |-> execution_history]
    /\ LET list == hooks[hook_type]
           ctx == hook_calls + 1
           n == Len(list)
       IN  IF n > 1
           THEN /\ fire' = Fire("running", hook_type, ctx, list,
                                [i \in 1..n |-> "queued"], [i \in 1..n |-> NoOutcome],
                                <<>>, <<>>, <<>>)
                /\ UNCHANGED execution_history
           ELSE LET res == [i \in 1..n |-> HookRecord(list[i], hook_execute(list[i]))]
                IN  /\ fire' = Fire("returned", hook_type, ctx, list,
                                    [i \in 1..n |-> "done"],
                                    [i \in 1..n |-> hook_execute(list[i])],
                                    [i \in 1..n |-> i], [i \in 1..n |-> i], res)
                    /\ execution_history' =
                           Append(execution_history, HistoryEntry(hook_type, ctx, res))
    /\ UNCHANGED <<orchVars, fires, pipeVars, hooks, hook_summary>>

\* execute_hooks is called: with no hook it returns [] at once, with one hook
\* it runs it in the calling thread, records the firing and returns, with
\* more it submits every hook to a fresh pool.
ExecuteHooks(hook_type) ==
    /\ ManagerFree
    /\ hook_calls' = hook_calls + 1
    /\ last_call' = [op |-> "execute_hooks", hook_type |-> hook_type, hooks |-> hooks,
                     execution_history |-> execution_history]
    /\ LET list == hooks[hook_type]
           ctx == hook_calls + 1
           n == Len(list)
       IN  IF list = <<>>
           THEN /\ fire' = Fire("returned", hook_type, ctx, list, <<>>, <<>>, <<>>, <<>>, <<>>)
                /\ UNCHANGED execution_history
           ELSE IF n > 1
           THEN /\ fire' = Fire("running", hook_type, ctx, list,
                                [i \in 1..n |-> "queued"], [i \in 1..n |-> NoOutcome],
                                <<>>, <<>>, <<>>)
                /\ UNCHANGED execution_history
           ELSE LET out == hook_execute(list[1])
                    res == <<HookRecord(list[1], out)>>
                IN  /\ fire' = Fire("returned", hook_type, ctx, list,
                                    <<"done">>, <<out>>, <<1>>, <<1>>, res)
                    /\ execution_history' =
                           Append(execution_history, HistoryEntry(hook_type, ctx, res))
    /\ UNCHANGED <<orchVars, fires, pipeVars, hooks, hook_summary>>

RunningHooks == {i \in 1..Len(fire.hooks) : fire.hstate[i] = "running"}

\* A worker of the call's ThreadPoolExecutor takes the next queued hook when
\* fewer than max_workers workers are busy.
StartHook(i) ==
    /\ pc = "hooks"
    /\ fire.state = "running"
    /\ i \in 1..Len(fire.hooks)
    /\ fire.hstate[i] = "queued"
    /\ \A j \in 1..Len(fire.hooks) : j < i => fire.hstate[j] # "queued"
    /\ Cardinality(RunningHooks) < HooksMaxWorkers
    /\ fire' = [fire EXCEPT !.hstate[i] = "running"]
    /\ UNCHANGED <<orchVars, fires, pipeVars, hooks, execution_history, hook_calls, last_call, hook_summary>>

\* The worker runs hook.execute to its end; the future holds its record or
\* its exception.
FinishHook(i) ==
    /\ pc = "hooks"
    /\ fire.state = "running"
    /\ i \in 1..Len(fire.hooks)
    /\ fire.hstate[i] = "running"
    /\ fire' = [fire EXCEPT !.hstate[i] = "done",
                            !.future[i] = hook_execute(fire.hooks[i]),
                            !.completed = Append(@, i)]
    /\ UNCHANGED <<orchVars, fires, pipeVars, hooks, execution_history, hook_calls, last_call, hook_summary>>

\* Variant that takes the futures as they complete.
NextToCollect_AsCompleted(f) ==
    {i \in 1..Len(f.hooks) :
        /\ f.hstate[i] = "done"
        /\ \A k \in 1..Len(f.collected) : f.collected[k] # i}

\* `for future in future_to_hook`: the dict is iterated in insertion order,
\* the order of the list, and future.result() waits for that future.
NextToCollect(f) ==
    LET k == Len(f.collected) + 1
    IN  IF k <= Len(f.hooks) /\ f.hstate[k] = "done" THEN {k} ELSE {}

CollectHook(i) ==
    /\ pc = "hooks"
    /\ fire.state = "running"
    /\ i \in NextToCollect(fire)
    /\ fire' = [fire EXCEPT !.collected = Append(@, i),
                            !.results = Append(@, HookRecord(fire.hooks[i], fire.future[i]))]
    /\ UNCHANGED <<orchVars, fires, pipeVars, hooks, execution_history, hook_calls, last_call, hook_summary>>

\* Variant that records the firing and returns once the first future has
\* been collected.
ReturnFire_Early ==
    /\ pc = "hooks"
    /\ fire.state = "running"
    /\ Len(fire.collected) >= 1
    /\ execution_history' =
           Append(execution_history, HistoryEntry(fire.hook_type, fire.context, fire.results))
    /\ fire' = [fire EXCEPT !.state = "returned"]
    /\ UNCHANGED <<orchVars, fires, pipeVars, hooks, hook_calls, last_call, hook_summary>>

\* Variant that keeps only the latest firing in the history.
ReturnFire_KeepsLatest ==
    /\ pc = "hooks"
    /\ fire.state = "running"
    /\ Len(fire.collected) = Len(fire.hooks)
    /\ execution_history' = <<HistoryEntry(fire.hook_type, fire.context, fire.results)>>
    /\ fire' = [fire EXCEPT !.state = "returned"]
    /\ UNCHANGED <<orchVars, fires, pipeVars, hooks, hook_calls, last_call, hook_summary>>

\* the loop over the futures has ended: the firing is recorded and
\* execute_hooks returns its results
ReturnFire ==
    /\ pc = "hooks"
    /\ fire.state = "running"
    /\ Len(fire.collected) = Len(fire.hooks)
    /\ execution_history' =
           Append(execution_history, HistoryEntry(fire.hook_type, fire.context, fire.results))
    /\ fire' = [fire EXCEPT !.state = "returned"]
    /\ UNCHANGED <<orchVars, fires, pipeVars, hooks, hook_calls, last_call, hook_summary>>

----------------------------------------------------------------------------
(* HooksManager: get_execution_summary *)

\* the hook records of all entries of the history, in order
RECURSIVE HookRecords(_)
HookRecords(history) ==
    IF history = <<>> THEN <<>>
    ELSE Head(history).results \o HookRecords(Tail(history))

get_execution_summary(history) ==
    LET total_executions == Len(history)
        records == HookRecords(history)
        successful_executions == CountStatus(records, "success")
        failed_executions == Len(records) - successful_executions
    IN  [total_executions |-> total_executions,
         successful_executions |-> successful_executions,
         failed_executions |-> failed_executions,
         success_rate |-> IF total_executions > 0
                          THEN Quotient(successful_executions, total_executions)
                          ELSE Zero]

GetExecutionSummary ==
    /\ ManagerFree
    /\ hook_summary' = get_execution_summary(execution_history)
    /\ hook_calls' = hook_calls + 1
    /\ last_call' = [op |-> "get_execution_summary", hooks |-> hooks,
                     execution_history |-> execution_history]
    /\ UNCHANGED <<orchVars, fires, pipeVars, hooks, execution_history, fire>>

\* a HooksManager just constructed, used by one caller
InitHooks ==
    /\ sessions = <<>>
    /\ max_workers = 1
    /\ pool_fault = <<>>
    /\ context = <<>>
    /\ turnState = <<>>
    /\ future = <<>>
    /\ results = <<>>
    /\ sessState = <<>>
    /\ session_results = <<>>
    /\ all_results = {}
    /\ summary = NoSummary
    /\ batch_return = NoSummary
    /\ pc = "hooks"
    /\ session_locks = <<>>
    /\ HooksManagerInit
    /\ CICDPipelineInit

NextHooks ==
    \/ \E hook \in HookCatalogue : RegisterHook(hook)
    \/ \E hook_name \in HookNames : \E hook_type \in CalledHookTypes :
          UnregisterHook(hook_name, hook_type)
    \/ \E hook_type \in CalledHookTypes : ExecuteHooks(hook_type)
    \/ \E i \in 1..MaxHookCalls : StartHook(i)
    \/ \E i \in 1..MaxHookCalls : FinishHook(i)
    \/ \E i \in 1..MaxHookCalls : CollectHook(i)
    \/ ReturnFire
    \/ GetExecutionSummary

SpecHooks == InitHooks /\ [][NextHooks]_vars

----------------------------------------------------------------------------
(* HooksManager: execute_hooks called from several threads *)

\* the hooks create_default_hooks registers, in its order; an
\* IntegrationTestHook, like a CustomHook, catches the fault of its function
DefaultHooks(faulty) ==
    <<Hook("agent_connectivity_test", "integration_test", 10, "IntegrationTestHook",
           "agent_connectivity_test" \in faulty, TRUE),
      Hook("data_integrity_test", "integration_test", 9, "IntegrationTestHook",
           "data_integrity_test" \in faulty, TRUE),
      Hook("langfuse_connection_test", "integration_test", 8, "IntegrationTestHook",
           "langfuse_connection_test" \in faulty, TRUE),
      Hook("data_validation", "pre_evaluation", 7, "DataValidationHook",
           "data_validation" \in faulty, TRUE),
      Hook("performance_monitor", "post_evaluation", 5, "PerformanceMonitoringHook",
           "performance_monitor" \in faulty, TRUE),
      Hook("error_handler", "error_handler", 10, "ErrorHandlingHook",
           "error_handler" \in faulty, TRUE),
      Hook("log_start", "pre_evaluation", 1, "CustomHook", "log_start" \in faulty, TRUE),
      Hook("log_end", "post_evaluation", 1, "CustomHook", "log_end" \in faulty, TRUE)>>

\* create_default_hooks: the registry after registering the first n of them
RECURSIVE create_default_hooks(_, _)
create_default_hooks(faulty, n) ==
    IF n = 0 THEN [t \in HookType |-> <<>>]
    ELSE LET registry == create_default_hooks(faulty, n - 1)
             hook == DefaultHooks(faulty)[n]
         IN  [registry EXCEPT ![hook.hook_type] =
                 register_hook(registry[hook.hook_type], hook, n)]

CallerThreads == 1..FireCallers

RunningHooksOf(f) ==
    IF f.state = "running"
    THEN {i \in 1..Len(f.hooks) : f.hstate[i] = "running"}
    ELSE {}

\* execute_hooks called by thread c
ExecuteHooksBy(c, hook_type) ==
    /\ pc = "fires"
    /\ fires[c].state = "idle"
    /\ LET list == hooks[hook_type]
           n == Len(list)
       IN  IF list = <<>>
           THEN /\ fires' = [fires EXCEPT ![c] =
                       Fire("returned", hook_type, c, list, <<>>, <<>>, <<>>, <<>>, <<>>)]
                /\ UNCHANGED execution_history
           ELSE IF n > 1
           THEN /\ fires' = [fires EXCEPT ![c] =
                       Fire("running", hook_type, c, list, [i \in 1..n |-> "queued"],
                            [i \in 1..n |-> NoOutcome], <<>>, <<>>, <<>>)]
                /\ UNCHANGED execution_history
           ELSE LET out == hook_execute(list[1])
                    res == <<HookRecord(list[1], out)>>
                IN  /\ fires' = [fires EXCEPT ![c] =
                           Fire("returned", hook_type, c, list,
                                <<"done">>, <<out>>, <<1>>, <<1>>, res)]
                    /\ execution_history' =
                           Append(execution_history, HistoryEntry(hook_type, c, res))
    /\ UNCHANGED <<orchVars, pipeVars, hooks, fire, hook_calls, last_call, hook_summary>>

\* A worker of the ThreadPoolExecutor of thread c's call takes the next
\* queued hook when fewer than max_workers workers of that executor are busy.
StartHookOf(c, i) ==
    /\ pc = "fires"
    /\ fires[c].state = "running"
    /\ i \in 1..Len(fires[c].hooks)
    /\ fires[c].hstate[i] = "queued"
    /\ \A j \in 1..Len(fires[c].hooks) : j < i => fires[c].hstate[j] # "queued"
    /\ Cardinality(RunningHooksOf(fires[c])) < HooksMaxWorkers
    /\ fires' = [fires EXCEPT ![c].hstate[i] = "running"]
    /\ UNCHANGED <<orchVars, pipeVars, hooks, execution_history, fire, hook_calls,
                   last_call, hook_summary>>

FinishHookOf(c, i) ==
    /\ pc = "fires"
    /\ fires[c].state = "running"
    /\ i \in 1..Len(fires[c].hooks)
    /\ fires[c].hstate[i] = "running"
    /\ fires' = [fires EXCEPT ![c].hstate[i] = "done",
                              ![c].future[i] = hook_execute(fires[c].hooks[i]),
                              ![c].completed = Append(@, i)]
    /\ UNCHANGED <<orchVars, pipeVars, hooks, execution_history, fire, hook_calls,
                   last_call, hook_summary>>

CollectHookOf(c, i) ==
    /\ pc = "fires"
    /\ fires[c].state = "running"
    /\ i \in NextToCollect(fires[c])
    /\ fires' = [fires EXCEPT
                    ![c].collected = Append(@, i),
                    ![c].results =
                        Append(@, HookRecord(fires[c].hooks[i], fires[c].future[i]))]
    /\ UNCHANGED <<orchVars, pipeVars, hooks, execution_history, fire, hook_calls,
                   last_call, hook_summary>>

ReturnFireOf(c) ==
    /\ pc = "fires"
    /\ fires[c].state = "running"
    /\ Len(fires[c].collected) = Len(fires[c].hooks)
    /\ execution_history' =
           Append(execution_history,
                  HistoryEntry(fires[c].hook_type, fires[c].context, fires[c].results))
    /\ fires' = [fires EXCEPT ![c].state = "returned"]
    /\ UNCHANGED <<orchVars, pipeVars, hooks, fire, hook_calls, last_call, hook_summary>>

\* the lifecycle points the threads fire, and the default hooks that may fault
FiredHookTypes == {"integration_test", "post_evaluation", "error_handler", "custom"}
FaultyDefaultHooks == {{}, {"data_integrity_test"}}

\* the HooksManager made by create_default_hooks, about to be used by
\* FireCallers threads, each calling execute_hooks once
InitFires ==
    /\ sessions = <<>>
    /\ max_workers = 1
    /\ pool_fault = <<>>
    /\ context = <<>>
    /\ turnState = <<>>
    /\ future = <<>>
    /\ results = <<>>
    /\ sessState = <<>>
    /\ session_results = <<>>
    /\ all_results = {}
    /\ summary = NoSummary
    /\ batch_return = NoSummary
    /\ pc = "fires"
    /\ session_locks = <<>>
    /\ \E faulty \in FaultyDefaultHooks :
          hooks = create_default_hooks(faulty, Len(DefaultHooks(faulty)))
    /\ execution_history = <<>>
    /\ fire = NoFire
    /\ hook_calls = 0
    /\ last_call = [op |-> "create_default_hooks"]
    /\ hook_summary = NoSummary
    /\ fires = [c \in CallerThreads |-> NoFire]
    /\ quality_gate = DefaultQualityGate
    /\ evaluation_history = <<>>
    /\ pipeline_run = NoRun
    /\ pipeline_runs = 0

NextFires ==
    \/ \E c \in CallerThreads : \E hook_type \in FiredHookTypes : ExecuteHooksBy(c, hook_type)
    \/ \E c \in CallerThreads : \E i \in 1..HooksMaxWorkers : StartHookOf(c, i)
    \/ \E c \in CallerThreads : \E i \in 1..HooksMaxWorkers : FinishHookOf(c, i)
    \/ \E c \in CallerThreads : \E i \in 1..HooksMaxWorkers : CollectHookOf(c, i)
    \/ \E c \in CallerThreads : ReturnFireOf(c)

SpecFires == InitFires /\ [][NextFires]_vars

----------------------------------------------------------------------------
(* CICDPipeline: _check_quality_gates *)

\* no batch is being evaluated; pc names what is modelled
NoBatch(at) ==
    /\ sessions = <<>>
    /\ max_workers = 1
    /\ pool_fault = <<>>
    /\ context = <<>>
    /\ turnState = <<>>
    /\ future = <<>>
    /\ results = <<>>
    /\ sessState = <<>>
    /\ session_results = <<>>
    /\ all_results = {}
    /\ summary = NoSummary
    /\ batch_return = NoSummary
    /\ pc = at
    /\ session_locks = <<>>

\* f'avg_score_{metric}'
AvgScoreKey(metric) ==
    CASE metric = "helpfulness" -> "avg_score_helpfulness"
      [] metric = "faithfulness" -> "avg_score_faithfulness"
      [] metric = "instruction_following" -> "avg_score_instruction_following"
      [] metric = "overall" -> "avg_score_overall"
      [] metric = "coherence" -> "avg_score_coherence"

RequiredMetrics(gate) == {gate.required_metrics[i] : i \in DOMAIN gate.required_metrics}

\* avg_scores.get(metric, 0.0)
get_score_AbsentPasses(avg_scores, metric) ==
    IF metric \in DOMAIN avg_scores THEN avg_scores[metric] ELSE float_ratio(1, 1)

get_score(avg_scores, metric) ==
    IF metric \in DOMAIN avg_scores THEN avg_scores[metric] ELSE FloatZero

\* a variant whose failed_turns check counts the error turns as well
GateChecks_CountsErrors(gate, evaluation_results) ==
    LET s == evaluation_results.summary
    IN  [k \in {"success_rate", "execution_time", "failed_turns"}
                \cup {AvgScoreKey(metric) : metric \in RequiredMetrics(gate)} |->
            CASE k = "success_rate" -> float_le(gate.min_success_rate, s.success_rate)
              [] k = "execution_time" ->
                     evaluation_results.execution_time <= gate.max_execution_time
              [] k = "failed_turns" ->
                     s.failed_turns + s.error_turns <= gate.max_failed_turns
              [] OTHER ->
                     \E metric \in RequiredMetrics(gate) :
                        /\ k = AvgScoreKey(metric)
                        /\ float_le(gate.min_average_score,
                                    get_score(s.average_scores, metric))]

\* the checks dict: one entry per fixed check and per required metric
GateChecks(gate, evaluation_results) ==
    LET s == evaluation_results.summary
    IN  [k \in {"success_rate", "execution_time", "failed_turns"}
                \cup {AvgScoreKey(metric) : metric \in RequiredMetrics(gate)} |->
            CASE k = "success_rate" -> float_le(gate.min_success_rate, s.success_rate)
              [] k = "execution_time" ->
                     evaluation_results.execution_time <= gate.max_execution_time
              [] k = "failed_turns" -> s.failed_turns <= gate.max_failed_turns
              [] OTHER ->
                     \E metric \in RequiredMetrics(gate) :
                        /\ k = AvgScoreKey(metric)
                        /\ float_le(gate.min_average_score,
                                    get_score(s.average_scores, metric))]

\* a variant that stops at the first failing check
check_quality_gates_ShortCircuit(gate, evaluation_results) ==
    LET checks == GateChecks(gate, evaluation_results)
        order == <<"success_rate", "execution_time", "failed_turns">>
        stop == {i \in 1..3 : ~checks[order[i]]}
        seen == IF stop = {} THEN DOMAIN checks
                ELSE {order[i] : i \in 1..(CHOOSE i \in stop : \A j \in stop : i <= j)}
    IN  [passed |-> \A k \in DOMAIN checks : checks[k],
         checks |-> [k \in seen |-> checks[k]],
         thresholds |-> gate,
         actual_values |->
             [success_rate |-> evaluation_results.summary.success_rate,
              execution_time |-> evaluation_results.execution_time,
              failed_turns |-> evaluation_results.summary.failed_turns,
              average_scores |-> evaluation_results.summary.average_scores]]

check_quality_gates(gate, evaluation_results) ==
    LET checks == GateChecks(gate, evaluation_results)
    IN  [passed |-> \A k \in DOMAIN checks : checks[k],
         checks |-> checks,
         thresholds |-> gate,
         actual_values |->
             [success_rate |-> evaluation_results.summary.success_rate,
              execution_time |-> evaluation_results.execution_time,
              failed_turns |-> evaluation_results.summary.failed_turns,
              average_scores |-> evaluation_results.summary.average_scores]]

\* the summary of a batch with the given turn counts and average scores
EvaluationSummary(total, successful, failed, average_scores) ==
    [total_turns |-> total,
     successful_turns |-> successful,
     failed_turns |-> failed,
     error_turns |-> total - successful - failed,
     success_rate |-> IF total > 0 THEN float_ratio(successful, total) ELSE FloatZero,
     average_scores |-> average_scores]

\* what run_concurrent_evaluation returns, with the execution_time (whole
\* seconds) run_evaluation_pipeline stores in it
EvaluationResults(s, execution_time) ==
    [summary |-> s, execution_time |-> execution_time]

\* the gates, turn counts <<total, successful>>, failed turns, times and
\* scores (in hundredths) the gate is checked on
GateThresholds == {float_ratio(7, 10), FloatZero}
GateMetrics == {DefaultQualityGate.required_metrics, <<"helpfulness", "coherence">>}
GateTurnCounts == {<<100, 79>>, <<100, 80>>, <<5, 4>>, <<0, 0>>}
GateFailedTurns == {0, 5, 6}
GateTimes == {12, 300, 301}
GateScores == {69, 70}

InitGate ==
    /\ NoBatch("gate")
    /\ HooksManagerInit
    /\ fires = <<>>
    /\ \E threshold \in GateThresholds : \E metrics \in GateMetrics :
          quality_gate = [DefaultQualityGate EXCEPT !.min_average_score = threshold,
                                                     !.required_metrics = metrics]
    /\ evaluation_history = <<>>
    /\ pipeline_runs = 0
    /\ \E counts \in GateTurnCounts : \E failed \in GateFailedTurns :
       \E time \in GateTimes : \E scores \in [SummaryMetrics \ {"overall"} -> GateScores] :
          /\ failed <= counts[1] - counts[2]
          /\ pipeline_run =
                [stage |-> "input",
                 evaluation_results |->
                    EvaluationResults(
                        EvaluationSummary(counts[1], counts[2], failed,
                            [m \in SummaryMetrics |->
                                IF m = "overall" THEN float_ratio(70, 100)
                                ELSE float_ratio(scores[m], 100)]),
                        time)]

CheckQualityGates ==
    /\ pc = "gate"
    /\ pipeline_run.stage = "input"
    /\ pipeline_run' =
          [stage |-> "checked",
           evaluation_results |-> pipeline_run.evaluation_results,
           quality_gate_result |->
               check_quality_gates(quality_gate, pipeline_run.evaluation_results)]
    /\ UNCHANGED <<orchVars, hookVars, fires, quality_gate, evaluation_history, pipeline_runs>>

NextGate == CheckQualityGates

SpecGate == InitGate /\ [][NextGate]_vars

----------------------------------------------------------------------------
(* CICDPipeline: _check_performance_regression *)

\* self.regression_threshold = 0.1
regression_threshold == float_ratio(1, 10)

\* self.evaluation_history[-3:]
recent_history_Whole(history) == history

recent_history(history) ==
    SubSeq(history, IF Len(history) > RecentRuns THEN Len(history) - RecentRuns + 1 ELSE 1,
           Len(history))

\* the scores of a metric in the runs that carry it, in the order of the runs
RECURSIVE MetricScores(_, _)
MetricScores(runs, metric) ==
    IF runs = <<>> THEN <<>>
    ELSE LET avg_scores == runs[Len(runs)].results.summary.average_scores
             before == MetricScores(SubSeq(runs, 1, Len(runs) - 1), metric)
         IN  IF metric \in DOMAIN avg_scores THEN Append(before, avg_scores[metric])
             ELSE before

\* baseline_scores: the mean per required metric some recent run carries
baseline_scores(gate, history) ==
    LET recent == recent_history(history)
    IN  [metric \in {m \in RequiredMetrics(gate) : MetricScores(recent, m) # <<>>} |->
            float_div(float_sum(MetricScores(recent, metric)),
                      Len(MetricScores(recent, metric)))]

\* baseline_score - current_score > self.regression_threshold
degraded(baseline_score, current_score) ==
    /\ float_lt(current_score, baseline_score)
    /\ float_lt(regression_threshold, float_sub(baseline_score, current_score))

check_performance_regression_FromOneRun(gate, history, current_results) ==
    IF Len(history) < 1
    THEN [regression_detected |-> FALSE,
          reason |-> "Insufficient history for regression detection"]
    ELSE LET baseline == baseline_scores(gate, history)
             current_scores == current_results.summary.average_scores
             regressions ==
                 [metric \in {m \in DOMAIN baseline :
                                 degraded(baseline[m], get_score(current_scores, m))} |->
                     [baseline |-> baseline[metric],
                      current |-> get_score(current_scores, metric),
                      degradation |-> float_sub(baseline[metric],
                                                get_score(current_scores, metric))]]
         IN  [regression_detected |-> DOMAIN regressions # {},
              regressions |-> regressions,
              baseline_scores |-> baseline,
              current_scores |-> current_scores,
              threshold |-> regression_threshold]

check_performance_regression(gate, history, current_results) ==
    IF Len(history) < MinHistory
    THEN [regression_detected |-> FALSE,
          reason |-> "Insufficient history for regression detection"]
    ELSE LET baseline == baseline_scores(gate, history)
             current_scores == current_results.summary.average_scores
             regressions ==
                 [metric \in {m \in DOMAIN baseline :
                                 degraded(baseline[m], get_score(current_scores, m))} |->
                     [baseline |-> baseline[metric],
                      current |-> get_score(current_scores, metric),
                      degradation |-> float_sub(baseline[metric],
                                                get_score(current_scores, metric))]]
         IN  [regression_detected |-> DOMAIN regressions # {},
              regressions |-> regressions,
              baseline_scores |-> baseline,
              current_scores |-> current_scores,
              threshold |-> regression_threshold]

\* the scores (in hundredths) of the metric that is compared: <<n>> is the
\* score n/100, <<>> stands for average scores that do not carry the metric
RegressionScores == {10, 20, 70, 75, 80, 82, 90}
ScoreOptions == {<<>>} \cup {<<s>> : s \in RegressionScores}

\* the float n/100 of a score n
ScoreFloat == [s \in RegressionScores |-> float_ratio(s, 100)]

\* average scores with the given score of helpfulness
ScoresWith(score) ==
    [m \in IF score = <<>> THEN {"faithfulness"} ELSE {"helpfulness", "faithfulness"} |->
        IF m = "helpfulness" THEN ScoreFloat[score[1]] ELSE ScoreFloat[80]]

ResultsWith(score) == EvaluationResults(EvaluationSummary(1, 1, 0, ScoresWith(score)), 12)

ResultsOf == [score \in ScoreOptions |-> ResultsWith(score)]

\* the lists of at most n elements of S
RECURSIVE Lists(_, _)
Lists(S, n) ==
    IF n = 0 THEN {<<>>}
    ELSE Lists(S, n - 1)
            \cup {Append(l, s) : l \in {x \in Lists(S, n - 1) : Len(x) = n - 1}, s \in S}

\* the histories: any scores in the RecentRuns last runs, and before them
\* runs with one of two scores
OlderScores == {<<20>>, <<90>>}
HistoryScores ==
    Lists(ScoreOptions, RecentRuns)
        \cup {older \o recent :
                 older \in Lists(OlderScores, MaxHistory - RecentRuns) \ {<<>>},
                 recent \in {x \in Lists(ScoreOptions, RecentRuns) : Len(x) = RecentRuns}}

InitRegression ==
    /\ NoBatch("regression")
    /\ HooksManagerInit
    /\ fires = <<>>
    /\ quality_gate =
          [DefaultQualityGate EXCEPT !.required_metrics = <<"helpfulness", "coherence">>]
    /\ pipeline_runs = 0
    /\ \E l \in HistoryScores :
          evaluation_history = [i \in 1..Len(l) |-> [results |-> ResultsOf[l[i]]]]
    /\ \E score \in ScoreOptions :
          pipeline_run = [stage |-> "input", evaluation_results |-> ResultsOf[score]]

CheckPerformanceRegression ==
    /\ pc = "regression"
    /\ pipeline_run.stage = "input"
    /\ pipeline_run' =
          [stage |-> "checked",
           evaluation_results |-> pipeline_run.evaluation_results,
           regression_result |->
               check_performance_regression(quality_gate, evaluation_history,
                                            pipeline_run.evaluation_results)]
    /\ UNCHANGED <<orchVars, hookVars, fires, quality_gate, evaluation_history, pipeline_runs>>

NextRegression == CheckPerformanceRegression

SpecRegression == InitRegression /\ [][NextRegression]_vars

----------------------------------------------------------------------------
(* _generate_evaluation_summary on results that carry scores, and the gate
   on the summary it returns *)

\* the turn results of a batch, and the items of a metrics_scores dict
MaxScoreTurns == 3
MaxMetricItems == 2

\* the metrics_scores dicts of the evaluators: a tracked metric; a tracked
\* metric in another case and an untracked one; a metric without a score
\* and a tracked one
MetricsPayloads ==
    {<<[metric_name |-> "helpfulness", metric_data |-> [score |-> ScoreFloat[10]]]>>,
     <<[metric_name |-> "Helpfulness", metric_data |-> [score |-> ScoreFloat[70]]],
       [metric_name |-> "coherence", metric_data |-> [score |-> ScoreFloat[90]]]>>,
     <<[metric_name |-> "helpfulness", metric_data |-> [explanation |-> "n/a"]],
       [metric_name |-> "overall", metric_data |-> [score |-> ScoreFloat[90]]]>>}

\* the dicts the evaluators return: without evaluation_results, with
\* evaluation_results that have no metrics_scores, or with metrics_scores
ScoredResults ==
    {[question_id |-> 0],
     [question_id |-> 0, evaluation_results |-> [trace_id |-> 0]]}
        \cup {[question_id |-> 0, evaluation_results |-> [metrics_scores |-> p]] :
                 p \in MetricsPayloads}

\* the turn results of a session: what evaluate_single_turn and the handler
\* of process_conversation_session produce
ScoredOutcomes ==
    {[status |-> st, error |-> "fault"] : st \in {"failed", "error", "exception"}}
        \cup {[status |-> "success", results |-> r] : r \in ScoredResults}

\* the float success_rate of a summary: successful_turns / total_turns
SummaryFloats(sm) ==
    [sm EXCEPT !.success_rate = float_ratio(sm.success_rate.num, sm.success_rate.den)]

\* the max_failed_turns of the gates a summary is checked by
GateMaxFailedTurns == {0, DefaultQualityGate.max_failed_turns}

\* two sessions that returned: the turn results outs, cut in two
InitScores ==
    /\ sessions = <<>>
    /\ max_workers = 1
    /\ pool_fault = <<>>
    /\ context = <<>>
    /\ turnState = <<>>
    /\ future = <<>>
    /\ results = <<>>
    /\ sessState = <<>>
    /\ \E outs \in SeqsUpTo(ScoredOutcomes, MaxScoreTurns) : \E cut \in 0..Len(outs) :
          session_results =
              <<[session_id |-> 1, trajectory_id |-> 1,
                 results |-> SubSeq(outs, 1, cut), context |-> EmptyContext],
                [session_id |-> 2, trajectory_id |-> 2,
                 results |-> SubSeq(outs, cut + 1, Len(outs)), context |-> EmptyContext]>>
    /\ all_results = {}
    /\ summary = NoSummary
    /\ batch_return = NoSummary
    /\ pc = "scores"
    /\ session_locks = <<>>
    /\ HooksManagerInit
    /\ fires = <<>>
    /\ \E max_failed_turns \in GateMaxFailedTurns :
          quality_gate = [DefaultQualityGate EXCEPT !.max_failed_turns = max_failed_turns]
    /\ evaluation_history = <<>>
    /\ pipeline_runs = 0
    /\ pipeline_run = [stage |-> "input"]

\* run_concurrent_evaluations generates the summary of the session results
GenerateSummary ==
    /\ pc = "scores"
    /\ summary' = generate_evaluation_summary(session_results)
    /\ pc' = "summarized"
    /\ UNCHANGED <<session_locks, hookVars, fires, pipeVars, sessions, max_workers, pool_fault,
                   context, turnState, future,
                   results, sessState, session_results, all_results, batch_return>>

\* run_evaluation_pipeline checks the gate on the results with that summary
CheckGeneratedSummary ==
    /\ pc = "summarized"
    /\ pipeline_run' =
          [stage |-> "checked",
           evaluation_results |-> EvaluationResults(SummaryFloats(summary), 12),
           quality_gate_result |->
               check_quality_gates(quality_gate,
                                   EvaluationResults(SummaryFloats(summary), 12))]
    /\ pc' = "checked"
    /\ UNCHANGED <<session_locks, hookVars, fires, quality_gate, evaluation_history,
                   pipeline_runs, sessions, max_workers, pool_fault, context, turnState,
                   future, results, sessState, session_results, all_results, summary,
                   batch_return>>

NextScores ==
    \/ GenerateSummary
    \/ CheckGeneratedSummary

SpecScores == InitScores /\ [][NextScores]_vars

----------------------------------------------------------------------------
(* CICDPipeline: _generate_pipeline_report and run_evaluation_pipeline *)

\* a variant that reports a regression before it looks at the gate
generate_pipeline_report_RegressionFirst(evaluation_results, quality_gate_result, regression_result, pre_results, post_results) ==
    [status |-> IF regression_result.regression_detected THEN "warning"
                ELSE IF ~quality_gate_result.passed THEN "failed"
                ELSE "passed",
     evaluation_summary |-> evaluation_results.summary,
     quality_gate |-> quality_gate_result,
     performance_regression |-> regression_result,
     pre_pipeline_tests |-> pre_results,
     post_pipeline_tests |-> post_results,
     execution_time |-> evaluation_results.execution_time]

generate_pipeline_report(evaluation_results, quality_gate_result, regression_result, pre_results, post_results) ==
    [status |-> IF ~quality_gate_result.passed THEN "failed"
                ELSE IF regression_result.regression_detected THEN "warning"
                ELSE "passed",
     evaluation_summary |-> evaluation_results.summary,
     quality_gate |-> quality_gate_result,
     performance_regression |-> regression_result,
     pre_pipeline_tests |-> pre_results,
     post_pipeline_tests |-> post_results,
     execution_time |-> evaluation_results.execution_time]

\* _check_pre_pipeline_tests
check_pre_pipeline_tests(pre_results) ==
    \A i \in DOMAIN pre_results : pre_results[i].status = "success"

\* what execute_hooks returns for the hooks of a lifecycle point of the
\* default manager: one record per hook, in list order
hook_results(hook_type, faulty) ==
    LET list == create_default_hooks(faulty, Len(DefaultHooks(faulty)))[hook_type]
    IN  [i \in 1..Len(list) |-> HookRecord(list[i], hook_execute(list[i]))]

\* a call of run_evaluation_pipeline: the stage it is in, the stages it has
\* entered, the evaluation_history it was called with, its locals, and how
\* it ended ("running" while it has not)
Run(stage, trace, history_at_call, faulty, pre_results, evaluation_results, post_results, quality_gate_result, regression_result, outcome) ==
    [stage |-> stage, trace |-> trace, history_at_call |-> history_at_call,
     faulty |-> faulty, pre_results |-> pre_results,
     evaluation_results |-> evaluation_results, post_results |-> post_results,
     quality_gate_result |-> quality_gate_result,
     regression_result |-> regression_result, outcome |-> outcome]

RunGoesOn == [kind |-> "running"]
Returned(report) == [kind |-> "returned", report |-> report]
Raised == [kind |-> "raised"]

RunOver == IF pipeline_run.stage = "Idle" THEN TRUE ELSE pipeline_run.outcome.kind # "running"

\* run_evaluation_pipeline is called: the integration-test hooks are fired
RunStart(faulty) ==
    /\ pc = "pipeline"
    /\ RunOver
    /\ pipeline_runs < MaxRuns
    /\ pipeline_runs' = pipeline_runs + 1
    /\ LET pre_results == hook_results("integration_test", faulty)
       IN  /\ execution_history' =
                  Append(execution_history,
                         HistoryEntry("integration_test", pipeline_runs + 1, pre_results))
           /\ pipeline_run' =
                  Run("PreChecks", <<"Idle", "PreChecks">>, evaluation_history, faulty,
                      pre_results,
                      NoOutcome, <<>>, NoOutcome, NoOutcome, RunGoesOn)
    /\ UNCHANGED <<orchVars, fires, hooks, fire, hook_calls, last_call, hook_summary,
                   quality_gate, evaluation_history>>

\* a variant that goes on to the evaluation whatever the tests returned
RunPreChecks_IgnoresFailure ==
    /\ pc = "pipeline"
    /\ pipeline_run.stage = "PreChecks"
    /\ pipeline_run.outcome.kind = "running"
    /\ pipeline_run' = [pipeline_run EXCEPT !.stage = "Evaluating",
                                            !.trace = Append(@, "Evaluating")]
    /\ UNCHANGED <<orchVars, hookVars, fires, quality_gate, evaluation_history, pipeline_runs>>

\* the pre-pipeline tests are checked: a failed test ends the run
RunPreChecks ==
    /\ pc = "pipeline"
    /\ pipeline_run.stage = "PreChecks"
    /\ pipeline_run.outcome.kind = "running"
    /\ pipeline_run' =
          IF ~check_pre_pipeline_tests(pipeline_run.pre_results)
          THEN [pipeline_run EXCEPT
                   !.stage = "Reported",
                   !.trace = Append(@, "Reported"),
                   !.outcome = Returned([status |-> "failed", stage |-> "pre_pipeline",
                                         error |-> "Pre-pipeline tests failed",
                                         results |-> pipeline_run.pre_results])]
          ELSE [pipeline_run EXCEPT !.stage = "Evaluating",
                                    !.trace = Append(@, "Evaluating")]
    /\ UNCHANGED <<orchVars, hookVars, fires, quality_gate, evaluation_history, pipeline_runs>>

\* run_concurrent_evaluation returns the results of the batch; the
\* post-evaluation hooks are fired
RunEvaluation(evaluation_results) ==
    /\ pc = "pipeline"
    /\ pipeline_run.stage = "Evaluating"
    /\ pipeline_run.outcome.kind = "running"
    /\ LET post_results == hook_results("post_evaluation", pipeline_run.faulty)
       IN  /\ execution_history' =
                  Append(execution_history,
                         HistoryEntry("post_evaluation", pipeline_runs, post_results))
           /\ pipeline_run' =
                  [pipeline_run EXCEPT !.stage = "GateCheck",
                                       !.trace = Append(@, "GateCheck"),
                                       !.evaluation_results = evaluation_results,
                                       !.post_results = post_results]
    /\ UNCHANGED <<orchVars, fires, hooks, fire, hook_calls, last_call, hook_summary,
                   quality_gate, evaluation_history, pipeline_runs>>

\* run_concurrent_evaluation raises (the data file is missing or is not the
\* JSON it expects, the environment or the configuration cannot be set up):
\* nothing in run_evaluation_pipeline catches it
RunEvaluationRaises ==
    /\ pc = "pipeline"
    /\ pipeline_run.stage = "Evaluating"
    /\ pipeline_run.outcome.kind = "running"
    /\ pipeline_run' = [pipeline_run EXCEPT !.outcome = Raised]
    /\ UNCHANGED <<orchVars, hookVars, fires, quality_gate, evaluation_history, pipeline_runs>>

\* a variant that enters the gate check a second time
RunGateCheck_Reenters ==
    /\ pc = "pipeline"
    /\ pipeline_run.stage = "GateCheck"
    /\ pipeline_run.outcome.kind = "running"
    /\ pipeline_run' =
          [pipeline_run EXCEPT
              !.stage = IF pipeline_run.quality_gate_result = NoOutcome
                        THEN "GateCheck" ELSE "RegressionCheck",
              !.trace = Append(@, IF pipeline_run.quality_gate_result = NoOutcome
                                  THEN "GateCheck" ELSE "RegressionCheck"),
              !.quality_gate_result =
                  check_quality_gates(quality_gate, pipeline_run.evaluation_results)]
    /\ UNCHANGED <<orchVars, hookVars, fires, quality_gate, evaluation_history, pipeline_runs>>

RunGateCheck ==
    /\ pc = "pipeline"
    /\ pipeline_run.stage = "GateCheck"
    /\ pipeline_run.outcome.kind = "running"
    /\ pipeline_run' =
          [pipeline_run EXCEPT
              !.stage = "RegressionCheck",
              !.trace = Append(@, "RegressionCheck"),
              !.quality_gate_result =
                  check_quality_gates(quality_gate, pipeline_run.evaluation_results)]
    /\ UNCHANGED <<orchVars, hookVars, fires, quality_gate, evaluation_history, pipeline_runs>>

\* a variant that stores the run in the history before it checks it
RunRegressionCheck_AfterAppend ==
    /\ pc = "pipeline"
    /\ pipeline_run.stage = "RegressionCheck"
    /\ pipeline_run.outcome.kind = "running"
    /\ pipeline_run.regression_result = NoOutcome
    /\ pipeline_run' =
          [pipeline_run EXCEPT
              !.regression_result =
                  check_performance_regression(
                      quality_gate,
                      Append(evaluation_history,
                             [results |-> pipeline_run.evaluation_results]),
                      pipeline_run.evaluation_results)]
    /\ UNCHANGED <<orchVars, hookVars, fires, quality_gate, evaluation_history, pipeline_runs>>

RunRegressionCheck ==
    /\ pc = "pipeline"
    /\ pipeline_run.stage = "RegressionCheck"
    /\ pipeline_run.outcome.kind = "running"
    /\ pipeline_run.regression_result = NoOutcome
    /\ pipeline_run' =
          [pipeline_run EXCEPT
              !.regression_result =
                  check_performance_regression(quality_gate, evaluation_history,
                                               pipeline_run.evaluation_results)]
    /\ UNCHANGED <<orchVars, hookVars, fires, quality_gate, evaluation_history, pipeline_runs>>

\* the report is built, the run is stored in the history, the report returned
RunReport ==
    /\ pc = "pipeline"
    /\ pipeline_run.stage = "RegressionCheck"
    /\ pipeline_run.outcome.kind = "running"
    /\ pipeline_run.regression_result # NoOutcome
    /\ LET pipeline_report ==
               generate_pipeline_report(pipeline_run.evaluation_results,
                                        pipeline_run.quality_gate_result,
                                        pipeline_run.regression_result,
                                        pipeline_run.pre_results,
                                        pipeline_run.post_results)
       IN  /\ evaluation_history' =
                  Append(evaluation_history,
                         [results |-> pipeline_run.evaluation_results,
                          quality_gate |-> pipeline_run.quality_gate_result,
                          regression |-> pipeline_run.regression_result,
                          pipeline_report |-> pipeline_report])
           /\ pipeline_run' = [pipeline_run EXCEPT !.stage = "Reported",
                                                    !.trace = Append(@, "Reported"),
                                                    !.outcome = Returned(pipeline_report)]
    /\ UNCHANGED <<orchVars, hookVars, fires, quality_gate, pipeline_runs>>

\* the default hooks that fault during a run, and the batches a run
\* evaluates: <<total turns, successful turns, score of every metric>>
PipelineFaults == {{}, {"data_integrity_test"}, {"performance_monitor"}}
PipelineBatches == {<<5, 5, 90>>, <<5, 5, 75>>, <<5, 3, 90>>, <<5, 3, 20>>}

BatchResults(batch) ==
    EvaluationResults(
        EvaluationSummary(batch[1], batch[2], 0, [m \in SummaryMetrics |-> ScoreFloat[batch[3]]]),
        12)

\* CICDPipeline(): the default gate, the default hooks, no history
InitPipeline ==
    /\ NoBatch("pipeline")
    /\ hooks = create_default_hooks({}, Len(DefaultHooks({})))
    /\ execution_history = <<>>
    /\ fire = NoFire
    /\ hook_calls = 0
    /\ last_call = [op |-> "create_default_hooks"]
    /\ hook_summary = NoSummary
    /\ fires = <<>>
    /\ quality_gate = DefaultQualityGate
    /\ evaluation_history = <<>>
    /\ pipeline_run = NoRun
    /\ pipeline_runs = 0

NextPipeline ==
    \/ \E faulty \in PipelineFaults : RunStart(faulty)
    \/ RunPreChecks
    \/ \E batch \in PipelineBatches : RunEvaluation(BatchResults(batch))
    \/ RunEvaluationRaises
    \/ RunGateCheck
    \/ RunRegressionCheck
    \/ RunReport

SpecPipeline == InitPipeline /\ [][NextPipeline]_vars

----------------------------------------------------------------------------
(* run_concurrent_evaluations from the data file on *)

\* a turn of the data file: a dict with or without 'question' and
\* 'question_type'; beh is what the evaluator does for the turn
TurnData ==
    [question : {"q"}, question_type : {"COT"}, beh : {"ok", "raise"}]
        \cup [question : {"q"}, beh : {"ok"}]
        \cup [question_type : {"COT"}, beh : {"ok"}]
        \cup [beh : {"ok"}]

\* turn_data['question'] raises KeyError
create_conversation_session_raises(turns_data) ==
    \E i \in 1..Len(turns_data) : "question" \notin DOMAIN turns_data[i]

\* evaluation_type=turn_data.get('question_type', 'COT')
TurnKindOf(turn_data) ==
    [evaluation_type |-> IF "question_type" \in DOMAIN turn_data
                         THEN turn_data.question_type ELSE "COT",
     beh |-> turn_data.beh]

\* the data files: at most MaxSessions trajectories with at most
\* MaxBatchTurns turns in all
RECURSIVE DataOf(_, _)
DataOf(n, budget) ==
    IF n = 0 THEN {<<>>}
    ELSE UNION {{<<k>> \o rest : rest \in DataOf(n - 1, budget - Len(k))} :
                    k \in SeqsUpTo(TurnData, budget)}

DataFiles == UNION {DataOf(n, MaxBatchTurns) : n \in 0..MaxSessions}

\* the trajectories before the first one whose session cannot be created
CreatedBeforeFault(data_dict) ==
    {k \in 1..Len(data_dict) :
        \A j \in 1..k : ~create_conversation_session_raises(data_dict[j])}

\* run_concurrent_evaluations is called with a data file
InitCreate ==
    /\ sessions = <<>>
    /\ max_workers \in {1, 2}
    /\ pool_fault = <<>>
    /\ context = <<>>
    /\ turnState = <<>>
    /\ future = <<>>
    /\ results = <<>>
    /\ sessState = <<>>
    /\ session_results = <<>>
    /\ all_results = {}
    /\ summary = NoSummary
    /\ batch_return = NoSummary
    /\ pc = "load"
    /\ session_locks = <<>>
    /\ HooksManagerInit
    /\ fires = <<>>
    /\ quality_gate = DefaultQualityGate
    /\ evaluation_history = <<>>
    /\ pipeline_runs = 0
    /\ \E data_dict \in DataFiles : pipeline_run = [stage |-> "Evaluating", data_file |-> data_dict]

\* the loop over data_dict.items() creates every session, and the sessions
\* are submitted to the batch pool
CreateSessions ==
    /\ pc = "load"
    /\ \A k \in 1..Len(pipeline_run.data_file) :
          ~create_conversation_session_raises(pipeline_run.data_file[k])
    /\ sessions' = [s \in 1..Len(pipeline_run.data_file) |->
                       create_conversation_session(s,
                           [i \in 1..Len(pipeline_run.data_file[s]) |->
                               TurnKindOf(pipeline_run.data_file[s][i])])]
    /\ pool_fault' \in [1..Len(pipeline_run.data_file) -> BOOLEAN]
    /\ context' = [s \in 1..Len(pipeline_run.data_file) |-> EmptyContext]
    /\ turnState' = [s \in 1..Len(pipeline_run.data_file) |->
                        [i \in 1..Len(pipeline_run.data_file[s]) |-> "unsubmitted"]]
    /\ future' = [s \in 1..Len(pipeline_run.data_file) |->
                     [i \in 1..Len(pipeline_run.data_file[s]) |-> NoOutcome]]
    /\ results' = [s \in 1..Len(pipeline_run.data_file) |-> <<>>]
    /\ sessState' = [s \in 1..Len(pipeline_run.data_file) |-> "queued"]
    /\ session_locks' = [s \in 1..Len(pipeline_run.data_file) |-> "unlocked"]
    /\ pc' = "batch"
    /\ UNCHANGED <<hookVars, fires, pipeVars, max_workers, session_results, all_results,
                   summary, batch_return>>

\* create_conversation_session raises in the loop: the KeyError leaves
\* run_concurrent_evaluations; the sessions created before it stay in
\* active_sessions, none is submitted
CreateSessionsRaises ==
    /\ pc = "load"
    /\ \E k \in 1..Len(pipeline_run.data_file) :
          create_conversation_session_raises(pipeline_run.data_file[k])
    /\ sessions' = [s \in CreatedBeforeFault(pipeline_run.data_file) |->
                       create_conversation_session(s,
                           [i \in 1..Len(pipeline_run.data_file[s]) |->
                               TurnKindOf(pipeline_run.data_file[s][i])])]
    /\ pool_fault' = [s \in CreatedBeforeFault(pipeline_run.data_file) |-> FALSE]
    /\ context' = [s \in CreatedBeforeFault(pipeline_run.data_file) |-> EmptyContext]
    /\ turnState' = [s \in CreatedBeforeFault(pipeline_run.data_file) |->
                        [i \in 1..Len(pipeline_run.data_file[s]) |-> "unsubmitted"]]
    /\ future' = [s \in CreatedBeforeFault(pipeline_run.data_file) |->
                     [i \in 1..Len(pipeline_run.data_file[s]) |-> NoOutcome]]
    /\ results' = [s \in CreatedBeforeFault(pipeline_run.data_file) |-> <<>>]
    /\ sessState' = [s \in CreatedBeforeFault(pipeline_run.data_file) |-> "unsubmitted"]
    /\ session_locks' = [s \in CreatedBeforeFault(pipeline_run.data_file) |-> "unlocked"]
    /\ pc' = "raised"
    /\ UNCHANGED <<hookVars, fires, pipeVars, max_workers, session_results, all_results,
                   summary, batch_return>>

NextCreate ==
    \/ CreateSessions
    \/ CreateSessionsRaises
    \/ \E s \in Sessions : StartSession(s)
    \/ \E s \in Sessions : SessionRaises(s)
    \/ \E s \in Sessions : \E i \in Turns(s) : StartTurn(s, i)
    \/ \E s \in Sessions : \E i \in Turns(s) : FinishTurn(s, i)
    \/ \E s \in Sessions : \E i \in Turns(s) : CollectTurn(s, i)
    \/ \E s \in Sessions : ReturnSession(s)
    \/ \E s \in Sessions : CollectSession(s)
    \/ Summarize

SpecCreate == InitCreate /\ [][NextCreate]_vars

----------------------------------------------------------------------------
(* Properties *)

\* the status a turn's own evaluator decides: raising (or an evaluation type
\* without evaluator) gives 'error', None gives 'failed', a result 'success'
OwnStatus(turn) ==
    IF turn.evaluation_type \notin EvaluatorMap \/ turn.beh = "raise" THEN "error"
    ELSE IF turn.beh = "none" THEN "failed"
    ELSE "success"

Succeeds(turn) == turn.evaluation_type \in EvaluatorMap /\ turn.beh \in {"ok", "ok_noresp"}

\* positions of the outcomes of a turn in a list of outcomes
OutcomesOf(res, tid) == {k \in 1..Len(res) : res[k].turn_id = tid}

\* position of the first outcome of a turn in a list of outcomes (0: none)
FirstOutcome(res, tid) ==
    IF OutcomesOf(res, tid) = {} THEN 0
    ELSE CHOOSE k \in OutcomesOf(res, tid) : \A m \in OutcomesOf(res, tid) : k <= m

\* some outcomes were collected out of submission order
OutOfOrder(res) == \E k \in 1..Len(res) : \E m \in 1..Len(res) :
                        k < m /\ res[k].turn_id > res[m].turn_id

\* C1: when process_conversation_session returns, its list holds exactly one
\* outcome per turn of the session: as many outcomes as turns, and for every
\* turn exactly one outcome with its turn_id.
C1_OneOutcomePerTurn ==
    \A s \in Sessions :
        sessState[s] = "returned" =>
            /\ Len(results[s]) = Len(sessions[s].turns)
            /\ \A i \in Turns(s) :
                  Cardinality(OutcomesOf(results[s], sessions[s].turns[i].turn_id)) = 1

\* C2: evaluate_single_turn always yields an outcome, whose status is
\* 'success' iff the evaluator returned a result, 'failed' iff it returned
\* None, and 'error' iff creating or running it raised (an evaluation type
\* without evaluator included).
C2_StatusFollowsEvaluator ==
    \A s \in Sessions : \A i \in Turns(s) :
        turnState[s][i] \in {"done", "collected"} =>
            LET turn == sessions[s].turns[i]
                out == future[s][i]
                known == turn.evaluation_type \in EvaluatorMap
            IN  /\ out.status \in {"success", "failed", "error"}
                /\ out.turn_id = turn.turn_id
                /\ out.status = "success" <=> (known /\ turn.beh \in {"ok", "ok_noresp"})
                /\ out.status = "failed" <=> (known /\ turn.beh = "none")
                /\ out.status = "error" <=> (~known \/ turn.beh = "raise")

\* a session in which an evaluator raised, one returned None, an evaluation
\* type was unknown and one evaluation succeeded, all evaluated
C2_Witness ==
    \E s \in Sessions :
        /\ \A i \in Turns(s) : turnState[s][i] \in {"done", "collected"}
        /\ \E i \in Turns(s) : sessions[s].turns[i].evaluation_type = "BOGUS"
                                  /\ future[s][i].status = "error"
        /\ \E i \in Turns(s) : sessions[s].turns[i].beh = "none"
                                  /\ future[s][i].status = "failed"
        /\ \E i \in Turns(s) : sessions[s].turns[i].beh = "ok"
                                  /\ sessions[s].turns[i].evaluation_type = "COT"
                                  /\ future[s][i].status = "success"

\* C3: when a session returns, every turn has been evaluated and the outcome
\* collected from its future has the status its own evaluator decides,
\* whatever its siblings did (faulting siblings included).
C3_SiblingsUnaffected ==
    \A s \in Sessions :
        sessState[s] = "returned" =>
            \A i \in Turns(s) :
                LET turn == sessions[s].turns[i]
                    k == FirstOutcome(results[s], turn.turn_id)
                IN  /\ future[s][i] # NoOutcome
                    /\ k # 0
                    /\ results[s][k].status = OwnStatus(turn)

\* a returned session with a faulting turn, collected first, and a sibling
\* that succeeded
C3_Witness ==
    \E s \in Sessions :
        /\ sessState[s] = "returned"
        /\ Len(results[s]) >= 2
        /\ results[s][1].status = "error"
        /\ \E k \in 2..Len(results[s]) : results[s][k].status = "success"

\* C8: a session with N turns whose evaluators all succeed returns exactly N
\* outcomes, all with status 'success', whatever its worker bound.
C8_AllSucceed ==
    \A s \in Sessions :
        (sessState[s] = "returned" /\ \A i \in Turns(s) : Succeeds(sessions[s].turns[i])) =>
            /\ Len(results[s]) = Len(sessions[s].turns)
            /\ \A k \in 1..Len(results[s]) : results[s][k].status = "success"

----------------------------------------------------------------------------
(* Properties of the batch *)

\* positions of the session results of a session
SessionResultsOf(s) ==
    {k \in 1..Len(session_results) : session_results[k].session_id = sessions[s].session_id}

\* C4: when run_concurrent_evaluations returns, every session has exactly
\* one session result, so there are as many session results as input
\* trajectories: a session whose processing raised has a result with status
\* 'failed' and an error message, every other session has its outcome list.
C4_OneResultPerSession ==
    pc = "done" =>
        /\ Len(session_results) = Len(sessions)
        /\ Len(batch_return.sessions) = batch_return.total_sessions
        /\ \A s \in Sessions :
              /\ Cardinality(SessionResultsOf(s)) = 1
              /\ \A k \in SessionResultsOf(s) :
                    IF pool_fault[s]
                    THEN /\ "status" \in DOMAIN session_results[k]
                         /\ session_results[k].status = "failed"
                         /\ "error" \in DOMAIN session_results[k]
                    ELSE /\ "results" \in DOMAIN session_results[k]
                         /\ session_results[k].results = results[s]

\* a finished batch in which the first session raised and a later session
\* returned its outcomes
C4_Witness ==
    /\ pc = "done"
    /\ Len(sessions) = 2
    /\ pool_fault[1] /\ ~pool_fault[2]
    /\ Len(sessions[2].turns) >= 1
    /\ \E k \in SessionResultsOf(2) : Len(session_results[k].results) >= 1

\* C5: the per-status turn counts of the summary add up to its total_turns.
C5_StatusCountsAddUp ==
    pc = "done" =>
        summary.successful_turns + summary.failed_turns + summary.error_turns
            = summary.total_turns

\* C6: the summary's success_rate is successful_turns / total_turns, and 0
\* when total_turns is 0.
C6_SuccessRate ==
    pc = "done" =>
        /\ summary.success_rate.den > 0
        /\ IF summary.total_turns = 0
           THEN summary.success_rate.num = 0
           ELSE summary.success_rate.num * summary.total_turns
                    = summary.successful_turns * summary.success_rate.den
        /\ summary.successful_turns
              = Cardinality({<<k, m>> \in (1..Len(session_results)) \X (1..MaxSummaryTurns) :
                    /\ "results" \in DOMAIN session_results[k]
                    /\ m <= Len(session_results[k].results)
                    /\ session_results[k].results[m].status = "success"})

\* a summary of three turns of which two succeeded: success rate 2/3
C6_Witness ==
    /\ pc = "done"
    /\ summary.total_turns = 3
    /\ summary.successful_turns = 2
    /\ summary.success_rate = [num |-> 2, den |-> 3]

\* the outcomes of a session when its turns complete in submission order
RECURSIVE InOrder(_, _, _)
InOrder(s, n, acc) ==
    IF n > Len(sessions[s].turns) THEN acc
    ELSE InOrder(s, n + 1,
                 CollectBody(acc.results, acc.context, sessions[s].session_id,
                             sessions[s].turns[n],
                             evaluate_single_turn(sessions[s].session_id,
                                                  sessions[s].turns[n])))

\* the session results of the batch when every turn and every session
\* completes in submission order
InOrderSessionResults ==
    [s \in Sessions |->
        IF pool_fault[s]
        THEN [session_id |-> sessions[s].session_id,
              trajectory_id |-> sessions[s].trajectory_id,
              error |-> "session fault", status |-> "failed"]
        ELSE LET run == InOrder(s, 1, [results |-> <<>>, context |-> EmptyContext])
             IN  [session_id |-> sessions[s].session_id,
                  trajectory_id |-> sessions[s].trajectory_id,
                  results |-> run.results, context |-> run.context]]

\* C7: the batch summary is the one of the run in which everything completes
\* in submission order, whatever the completion order was.
C7_SummaryOrderIndependent ==
    pc = "done" => summary = generate_evaluation_summary(InOrderSessionResults)

\* a finished batch whose sessions completed out of submission order and in
\* which a session's turns completed out of submission order
C7_Witness ==
    /\ pc = "done"
    /\ Len(session_results) = 2
    /\ session_results[1].session_id > session_results[2].session_id
    /\ \E s \in Sessions : OutOfOrder(results[s])
    /\ summary.total_turns >= 2

\* number of turns of a session whose evaluator returns None
NoneTurns(s) == Cardinality({i \in Turns(s) : sessions[s].turns[i].beh = "none"})

\* C9: in a batch of one trajectory with n turns of which k return None and
\* the others succeed, the session result holds k 'failed' and n-k 'success'
\* outcomes and the summary reports failed_turns = k, successful_turns = n-k
\* and success_rate = (n-k)/n.
C9_OneTrajectory ==
    ( /\ pc = "done"
      /\ Len(sessions) = 1
      /\ ~pool_fault[1]
      /\ \A i \in Turns(1) : sessions[1].turns[i].beh \in {"ok", "none"} ) =>
        LET n == Len(sessions[1].turns)
            k == NoneTurns(1)
            outs == session_results[1].results
        IN  /\ Len(session_results) = 1
            /\ Len(outs) = n
            /\ CountStatus(outs, "failed") = k
            /\ CountStatus(outs, "success") = n - k
            /\ summary.failed_turns = k
            /\ summary.successful_turns = n - k
            /\ summary.total_turns = n
            /\ summary.success_rate.num * n = (n - k) * summary.success_rate.den
            /\ summary.success_rate.den > 0

\* three turns, the second of which returns None: one 'failed', two
\* 'success', success rate 2/3
C9_Witness ==
    /\ pc = "done"
    /\ Len(sessions) = 1
    /\ ~pool_fault[1]
    /\ Len(sessions[1].turns) = 3
    /\ sessions[1].turns[1].beh = "ok"
    /\ sessions[1].turns[2].beh = "none"
    /\ sessions[1].turns[3].beh = "ok"
    /\ CountStatus(session_results[1].results, "failed") = 1
    /\ CountStatus(session_results[1].results, "success") = 2
    /\ summary.success_rate = [num |-> 2, den |-> 3]

----------------------------------------------------------------------------
(* Locks and pool bounds *)

\* C11: every write to a session's context map happens while that session's
\* lock is held (so no two writes to one map are in progress together).
C11_WritesUnderLock ==
    [][\A s \in Sessions :
          context'[s] # context[s] => session_locks[s] = "locked"]_vars

RunningTurns == UNION {{<<s, i>> : i \in Running(s)} : s \in Sessions}

\* C12: never more than max_concurrent_turns turns of one session are being
\* evaluated at once, and the bound is the session's own: the next queued
\* turn of a running session may start whenever fewer than
\* max_concurrent_turns turns of that session are running, whatever the
\* other sessions' turns do.
C12_TurnPoolBound ==
    \A s \in Sessions :
        /\ Cardinality(Running(s)) <= sessions[s].max_concurrent_turns
        /\ \A i \in Turns(s) :
              (/\ sessState[s] = "running"
               /\ turnState[s][i] = "queued"
               /\ \A j \in Turns(s) : j < i => turnState[s][j] # "queued"
               /\ Cardinality(Running(s)) < sessions[s].max_concurrent_turns)
                  => ENABLED StartTurn(s, i)

\* one session's pool is full with a turn waiting, while another session's
\* turn runs: more turns run than one pool has workers
C12_Witness ==
    \E s \in Sessions :
        /\ Cardinality(Running(s)) = sessions[s].max_concurrent_turns
        /\ \E i \in Turns(s) : turnState[s][i] = "queued"
        /\ Cardinality(RunningTurns) > sessions[s].max_concurrent_turns

\* C13: never more than max_workers sessions of a batch are being processed
\* at once, so the turns running at once never exceed max_workers times the
\* per-session bound.
C13_BatchPoolBound ==
    /\ Cardinality(RunningSessions) <= max_workers
    /\ Cardinality(RunningTurns) <= max_workers * DefaultMaxConcurrentTurns

\* the batch pool is full and a session waits for a worker
C13_Witness ==
    /\ pc = "batch"
    /\ Cardinality(RunningSessions) = max_workers
    /\ \E s \in Sessions : sessState[s] = "queued"
    /\ RunningTurns # {}

----------------------------------------------------------------------------
(* HooksManager: registry and firing *)

\* C14: after any sequence of register_hook and unregister_hook calls, the
\* hook list of every lifecycle point is sorted by descending priority, and
\* hooks of equal priority are in the order of their registration.
C14_HooksSorted ==
    \A t \in HookType : \A i \in 1..Len(hooks[t]) : \A j \in 1..Len(hooks[t]) :
        i < j =>
            \/ hooks[t][i].priority > hooks[t][j].priority
            \/ /\ hooks[t][i].priority = hooks[t][j].priority
               /\ hooks[t][i].reg < hooks[t][j].reg

\* after an unregister_hook call a list holds a hook that was registered
\* after a hook of lower priority behind it, and two hooks of one priority
C14_Witness ==
    /\ last_call.op = "unregister_hook"
    /\ \E t \in HookType : \E i \in 1..Len(hooks[t]) : \E j \in 1..Len(hooks[t]) :
          /\ i < j
          /\ hooks[t][i].reg > hooks[t][j].reg
    /\ \E t \in HookType : \E i \in 1..Len(hooks[t]) : \E j \in 1..Len(hooks[t]) :
          /\ i < j
          /\ hooks[t][i].priority = hooks[t][j].priority

NotNamed(hook_name, list) == SelectSeq(list, LAMBDA h : h.name # hook_name)

\* C15: unregister_hook(name, point) removes from that point's list exactly
\* the hooks named name and keeps the others in their order; the lists of
\* the other points and the execution history are unchanged; when no hook of
\* that name is registered on the point, the registry is unchanged.
C15_UnregisterFrame ==
    last_call.op = "unregister_hook" =>
        LET t == last_call.hook_type
            before == last_call.hooks
        IN  /\ hooks[t] = NotNamed(last_call.hook_name, before[t])
            /\ \A u \in HookType \ {t} : hooks[u] = before[u]
            /\ execution_history = last_call.execution_history
            /\ (\A i \in 1..Len(before[t]) : before[t][i].name # last_call.hook_name)
                  => hooks = before

\* an unregister_hook call removed a hook and left another one on the point,
\* with a firing in the history
C15_Witness ==
    /\ last_call.op = "unregister_hook"
    /\ hooks[last_call.hook_type] # <<>>
    /\ Len(hooks[last_call.hook_type]) < Len(last_call.hooks[last_call.hook_type])
    /\ execution_history # <<>>

\* C16: execute_hooks on a lifecycle point without hooks returns the empty
\* sequence, runs no hook and leaves the execution history unchanged.
C16_EmptyPointNoOp ==
    (last_call.op = "execute_hooks" /\ last_call.hooks[last_call.hook_type] = <<>>) =>
        /\ fire.state = "returned"
        /\ fire.results = <<>>
        /\ fire.completed = <<>>
        /\ execution_history = last_call.execution_history

\* execute_hooks was called on a point without hooks while another point has
\* hooks and the history has an entry
C16_Witness ==
    /\ last_call.op = "execute_hooks"
    /\ last_call.hooks[last_call.hook_type] = <<>>
    /\ fire.state = "returned"
    /\ \E t \in HookType : hooks[t] # <<>>
    /\ execution_history # <<>>

\* the entry a returned execute_hooks call has to have recorded
FiredEntry == HistoryEntry(fire.hook_type, fire.context, fire.results)

\* C17 as stated: every execute_hooks call appends exactly one entry to the
\* execution history.
C17_EveryCallAppends ==
    (last_call.op = "execute_hooks" /\ fire.state = "returned") =>
        execution_history = Append(last_call.execution_history, FiredEntry)

\* C17: every execute_hooks call on a lifecycle point that has a hook appends
\* exactly one entry (lifecycle point, context, records) to the execution
\* history when it returns, a call on a point without hooks appends none,
\* and no call of the manager removes or changes an earlier entry.
C17_FiringAppendsOneEntry ==
    /\ last_call.op = "__init__" => execution_history = <<>>
    /\ last_call.op \in {"register_hook", "unregister_hook", "get_execution_summary"}
          => execution_history = last_call.execution_history
    /\ last_call.op = "execute_hooks" =>
          execution_history =
              IF fire.state = "returned" /\ last_call.hooks[last_call.hook_type] # <<>>
              THEN Append(last_call.execution_history, FiredEntry)
              ELSE last_call.execution_history

\* a second firing over several hooks has returned: the history holds the
\* earlier entry and the new one
C17_Witness ==
    /\ last_call.op = "execute_hooks"
    /\ fire.state = "returned"
    /\ Len(fire.hooks) > 1
    /\ last_call.execution_history # <<>>
    /\ Len(execution_history) = Len(last_call.execution_history) + 1

\* the status of the record of a hook: of its own handler when it has one
ExpectedStatus(hook) ==
    IF ~hook.faults THEN "success"
    ELSE IF hook.cls = "CustomHook" THEN "failed"
    ELSE "exception"

\* C18 as stated: of several hooks fired together, every hook that faults
\* gets a record with status 'exception' and its name, its siblings run to
\* completion, and the call returns one record per registered hook.
C18_FaultBecomesException ==
    (fire.state = "returned" /\ Len(fire.hooks) > 1) =>
        /\ Len(fire.results) = Len(fire.hooks)
        /\ \A i \in 1..Len(fire.hooks) :
              /\ fire.results[i].hook_name = fire.hooks[i].name
              /\ fire.results[i].status =
                     IF fire.hooks[i].faults THEN "exception" ELSE "success"

\* C18: of several hooks fired together, a hook whose fault leaves its
\* execute gets a record with status 'exception' and its name, a hook whose
\* execute catches the fault itself (CustomHook) gets its own 'failed'
\* record; in both cases every sibling runs to completion and the call
\* returns one record per registered hook.
C18_FaultContained ==
    (fire.state = "returned" /\ Len(fire.hooks) > 1) =>
        /\ Len(fire.results) = Len(fire.hooks)
        /\ \A i \in 1..Len(fire.hooks) :
              /\ fire.hstate[i] = "done"
              /\ fire.results[i].hook_name = fire.hooks[i].name
              /\ fire.results[i].status = ExpectedStatus(fire.hooks[i])

\* a hook raised first, a sibling completed after it with 'success', and the
\* call returned an 'exception' record for the one and the other's record
C18_Witness ==
    /\ fire.state = "returned"
    /\ Len(fire.hooks) > 1
    /\ \E i \in 1..Len(fire.hooks) : \E j \in 1..Len(fire.hooks) :
          /\ fire.results[i].status = "exception"
          /\ fire.results[j].status = "success"
          /\ \E k \in 1..Len(fire.completed) : \E m \in 1..Len(fire.completed) :
                k < m /\ fire.completed[k] = i /\ fire.completed[m] = j

\* C19: the records of an execute_hooks call follow the order of the sorted
\* hook list, whatever the order in which the hooks complete: the i-th
\* record is the record of the i-th hook.
C19_RecordsInListOrder ==
    fire.state \in {"running", "returned"} =>
        /\ Len(fire.results) <= Len(fire.hooks)
        /\ fire.state = "returned" => Len(fire.results) = Len(fire.hooks)
        /\ last_call.op = "execute_hooks" => fire.hooks = last_call.hooks[fire.hook_type]
        /\ \A i \in 1..Len(fire.results) :
              /\ fire.results[i].hook_name = fire.hooks[i].name
              /\ fire.results[i].status = ExpectedStatus(fire.hooks[i])

\* the hook of lower priority completed first, and the call returned the
\* record of the hook of higher priority first
C19_Witness ==
    /\ fire.state = "returned"
    /\ Len(fire.hooks) > 1
    /\ fire.completed[1] # 1
    /\ fire.hooks[1].priority > fire.hooks[fire.completed[1]].priority
    /\ fire.results[1].hook_name # fire.results[fire.completed[1]].hook_name

\* C20: get_execution_summary reports success_rate = successes / total, where
\* total counts the hook records of all firings (total = successes +
\* failures, the rate is between 0 and 1) and the rate is 0 when total is 0;
\* after one firing of a failing and a succeeding hook the rate is 1/2.
C20_SuccessRateOverRecords ==
    last_call.op = "get_execution_summary" =>
        LET records == HookRecords(execution_history)
            successes == CountStatus(records, "success")
            total == Len(records)
            rate == hook_summary.success_rate
        IN  /\ hook_summary.successful_executions = successes
            /\ hook_summary.failed_executions = total - successes
            /\ hook_summary.total_executions = total
            /\ rate.num <= rate.den
            /\ IF total = 0 THEN rate = Zero
               ELSE rate.num * total = successes * rate.den

\* C21: execute_hooks is synchronous for its caller: it has returned, and
\* its entry is in the execution history, only when every hook registered
\* on the fired lifecycle point has finished; while a hook is still queued
\* or running, the call has not returned and the history is as the call
\* found it.
C21_FireSynchronous ==
    /\ fire.state = "returned" =>
          /\ Len(fire.hstate) = Len(fire.hooks)
          /\ \A i \in 1..Len(fire.hooks) : fire.hstate[i] = "done"
    /\ (last_call.op = "execute_hooks" /\ fire.state = "running") =>
          execution_history = last_call.execution_history
    /\ (last_call.op = "execute_hooks" /\ fire.state = "returned"
           /\ fire.hooks # <<>>) =>
          execution_history # last_call.execution_history

\* three hooks were fired; the last of the list finished first, while the
\* others were still running, and the call returned after all three
C21_Witness ==
    /\ fire.state = "returned"
    /\ Len(fire.hooks) = 3
    /\ fire.completed[1] = 3
    /\ Len(execution_history) = Len(last_call.execution_history) + 1

\* C22: the worker bound of the hooks manager is shared by all execute_hooks
\* calls: never more than max_workers hooks of one manager execute at once,
\* also when several threads call execute_hooks at the same time.
C22_SharedHookBound ==
    Cardinality(UNION {{<<c, i>> : i \in RunningHooksOf(fires[c])} : c \in DOMAIN fires})
        <= HooksMaxWorkers

GateChecked == pc = "gate" /\ pipeline_run.stage = "checked"

\* C23: the quality gate evaluates every check, without short-circuit: the
\* verdict has a boolean for success_rate, execution_time, failed_turns and
\* for the average score of every required metric, each computed from its own
\* value and threshold, and 'passed' is true exactly when all of them are.
C23_ChecksIndependent ==
    GateChecked =>
        LET r == pipeline_run.quality_gate_result
            e == pipeline_run.evaluation_results
            s == e.summary
        IN  /\ DOMAIN r.checks =
                   {"success_rate", "execution_time", "failed_turns"}
                       \cup {AvgScoreKey(m) : m \in RequiredMetrics(quality_gate)}
            /\ \A k \in DOMAIN r.checks : r.checks[k] \in BOOLEAN
            /\ s.total_turns > 0 =>
                   (r.checks["success_rate"] <=> s.successful_turns * 10 >= 8 * s.total_turns)
            /\ s.total_turns = 0 => ~r.checks["success_rate"]
            /\ r.checks["execution_time"] <=> e.execution_time <= 300
            /\ r.checks["failed_turns"] <=> s.failed_turns <= 5
            /\ \A m \in RequiredMetrics(quality_gate) :
                   r.checks[AvgScoreKey(m)] <=>
                       /\ m \in DOMAIN s.average_scores =>
                              float_le(quality_gate.min_average_score, s.average_scores[m])
                       /\ m \notin DOMAIN s.average_scores =>
                              quality_gate.min_average_score = FloatZero
            /\ r.passed <=> \A k \in DOMAIN r.checks : r.checks[k]

\* a success rate of 0.79 against 0.8 fails alone: every other check holds
C23_Witness ==
    /\ GateChecked
    /\ pipeline_run.evaluation_results.summary.successful_turns = 79
    /\ ~pipeline_run.quality_gate_result.passed
    /\ \A k \in DOMAIN pipeline_run.quality_gate_result.checks :
          pipeline_run.quality_gate_result.checks[k] <=> k # "success_rate"

\* C24: a required metric absent from the average scores counts as 0: its
\* check fails when min_average_score is above 0 and passes when it is 0.
C24_AbsentMetricIsZero ==
    GateChecked =>
        \A m \in RequiredMetrics(quality_gate) :
            m \notin DOMAIN pipeline_run.evaluation_results.summary.average_scores =>
                (pipeline_run.quality_gate_result.checks[AvgScoreKey(m)]
                    <=> ~float_lt(FloatZero, quality_gate.min_average_score))

C24_Witness ==
    /\ GateChecked
    /\ "coherence" \in RequiredMetrics(quality_gate)
    /\ float_lt(FloatZero, quality_gate.min_average_score)
    /\ ~pipeline_run.quality_gate_result.checks["avg_score_coherence"]

C24_WitnessZero ==
    /\ GateChecked
    /\ "coherence" \in RequiredMetrics(quality_gate)
    /\ quality_gate.min_average_score = FloatZero
    /\ pipeline_run.quality_gate_result.checks["avg_score_coherence"]

RegressionChecked ==
    pc = "regression" /\ pipeline_run.stage = "checked" /\ Len(evaluation_history) >= 2

\* the scores of a metric in the three most recent entries that carry it
RecentScores(metric) ==
    MetricScores([i \in 1..(IF Len(evaluation_history) < 3 THEN Len(evaluation_history) ELSE 3) |->
                     evaluation_history[Len(evaluation_history)
                        - (IF Len(evaluation_history) < 3 THEN Len(evaluation_history) ELSE 3) + i]],
                 metric)

\* exact sums: a + a + .. (n times) and the sum of a list
RECURSIVE FixedTimes(_, _)
FixedTimes(a, n) == IF n = 0 THEN FloatZero ELSE FixedAdd(FixedTimes(a, n - 1), a)

RECURSIVE FixedSum(_)
FixedSum(scores) ==
    IF scores = <<>> THEN FloatZero
    ELSE FixedAdd(FixedSum(SubSeq(scores, 1, Len(scores) - 1)), scores[Len(scores)])

\* C26: with at least 2 history entries a metric is listed as regressed
\* exactly when its baseline mean minus its current value is strictly above
\* 0.10 (a degradation of exactly the threshold is not listed), and
\* regression_detected is true exactly when a metric is listed.  The mean is
\* taken exactly: sum - n * current > n * threshold over the n scores.
C26_ListedIffAboveThreshold ==
    RegressionChecked =>
        LET r == pipeline_run.regression_result
            current == pipeline_run.evaluation_results.summary.average_scores
        IN  /\ \A m \in RequiredMetrics(quality_gate) :
                  LET scores == RecentScores(m)
                      c == IF m \in DOMAIN current THEN current[m] ELSE FloatZero
                  IN  m \in DOMAIN r.regressions <=>
                         /\ scores # <<>>
                         /\ float_lt(FixedAdd(FixedTimes(c, Len(scores)),
                                               FixedTimes(regression_threshold, Len(scores))),
                                     FixedSum(scores))
            /\ DOMAIN r.regressions \subseteq RequiredMetrics(quality_gate)
            /\ r.regression_detected <=> DOMAIN r.regressions # {}

\* a degradation of exactly the threshold (0.2 against 0.1) is not listed
C26_WitnessAtThreshold ==
    /\ RegressionChecked
    /\ RecentScores("helpfulness") = <<ScoreFloat[20], ScoreFloat[20]>>
    /\ "helpfulness" \in DOMAIN pipeline_run.evaluation_results.summary.average_scores
    /\ pipeline_run.evaluation_results.summary.average_scores["helpfulness"] = ScoreFloat[10]
    /\ FixedSub(ScoreFloat[20], ScoreFloat[10]) = regression_threshold
    /\ ~pipeline_run.regression_result.regression_detected

\* 0.9 against 0.75 is listed
C26_WitnessListed ==
    /\ RegressionChecked
    /\ RecentScores("helpfulness") = <<ScoreFloat[90], ScoreFloat[90], ScoreFloat[90]>>
    /\ "helpfulness" \in DOMAIN pipeline_run.evaluation_results.summary.average_scores
    /\ pipeline_run.evaluation_results.summary.average_scores["helpfulness"] = ScoreFloat[75]
    /\ pipeline_run.regression_result.regression_detected
    /\ "helpfulness" \in DOMAIN pipeline_run.regression_result.regressions

\* 0.9 against 0.82 is not
C26_WitnessNotListed ==
    /\ RegressionChecked
    /\ RecentScores("helpfulness") = <<ScoreFloat[90], ScoreFloat[90], ScoreFloat[90]>>
    /\ "helpfulness" \in DOMAIN pipeline_run.evaluation_results.summary.average_scores
    /\ pipeline_run.evaluation_results.summary.average_scores["helpfulness"] = ScoreFloat[82]
    /\ ~pipeline_run.regression_result.regression_detected

\* the floats 0.8 and 0.7 differ by more than the float 0.1: listed
C26_WitnessFloats ==
    /\ RegressionChecked
    /\ RecentScores("helpfulness") = <<ScoreFloat[80], ScoreFloat[80]>>
    /\ "helpfulness" \in DOMAIN pipeline_run.evaluation_results.summary.average_scores
    /\ pipeline_run.evaluation_results.summary.average_scores["helpfulness"] = ScoreFloat[70]
    /\ float_lt(regression_threshold, FixedSub(ScoreFloat[80], ScoreFloat[70]))
    /\ pipeline_run.regression_result.regression_detected

\* C27: the baseline of a metric is the mean of its scores in the three most
\* recent history entries that carry it: older entries do not contribute, an
\* entry without the metric is skipped, and a metric no recent entry carries
\* has no baseline and is never listed.
C27_BaselineOverRecentRuns ==
    RegressionChecked =>
        LET r == pipeline_run.regression_result
        IN  \A m \in RequiredMetrics(quality_gate) :
                LET scores == RecentScores(m)
                IN  /\ m \in DOMAIN r.baseline_scores <=> scores # <<>>
                    /\ scores # <<>> =>
                           r.baseline_scores[m] = float_div(float_sum(scores), Len(scores))
                    /\ scores = <<>> => m \notin DOMAIN r.regressions

\* four entries: the oldest (0.2) is left out, the entry without the metric
\* is skipped, the baseline is the mean 0.9 of the two others
C27_Witness ==
    /\ RegressionChecked
    /\ Len(evaluation_history) = 4
    /\ evaluation_history[1].results.summary.average_scores["helpfulness"] = ScoreFloat[20]
    /\ "helpfulness" \notin DOMAIN evaluation_history[3].results.summary.average_scores
    /\ RecentScores("helpfulness") = <<ScoreFloat[90], ScoreFloat[90]>>
    /\ pipeline_run.regression_result.baseline_scores["helpfulness"] = ScoreFloat[90]
    /\ "coherence" \notin DOMAIN pipeline_run.regression_result.baseline_scores

InRun == pc = "pipeline" /\ pipeline_run.stage # "Idle"

\* C25: with fewer than 2 entries in the evaluation history the regression
\* check returns regression_detected = false whatever the current scores,
\* so the first two completed runs of a pipeline never report a regression.
C25_ColdStartNoRegression ==
    /\ (InRun /\ Len(evaluation_history) < 2
              /\ pipeline_run.stage = "RegressionCheck"
              /\ pipeline_run.regression_result # NoOutcome) =>
           ~pipeline_run.regression_result.regression_detected
    /\ pc = "pipeline" =>
           \A k \in DOMAIN evaluation_history :
               k <= 2 =>
                  /\ ~evaluation_history[k].regression.regression_detected
                  /\ ~evaluation_history[k].pipeline_report
                          .performance_regression.regression_detected
                  /\ evaluation_history[k].pipeline_report.status # "warning"

\* the second completed run drops from 0.9 to 0.2 and reports no regression
C25_Witness ==
    /\ pc = "pipeline"
    /\ Len(evaluation_history) >= 2
    /\ evaluation_history[1].results.summary.average_scores["helpfulness"] = ScoreFloat[90]
    /\ evaluation_history[2].results.summary.average_scores["helpfulness"] = ScoreFloat[20]
    /\ ~evaluation_history[2].regression.regression_detected

\* the third completed run does
C25_WitnessThirdRun ==
    /\ pc = "pipeline"
    /\ Len(evaluation_history) = 3
    /\ evaluation_history[3].regression.regression_detected

FullReport ==
    /\ InRun
    /\ pipeline_run.outcome.kind = "returned"
    /\ "quality_gate" \in DOMAIN pipeline_run.outcome.report

\* C28: the status of the report is 'failed' whenever the gate did not pass,
\* also when a regression was detected; 'warning' exactly when the gate
\* passed and a regression was detected; 'passed' exactly when the gate
\* passed and no regression was detected.
C28_ReportStatus ==
    FullReport =>
        LET report == pipeline_run.outcome.report
            gate_passed == report.quality_gate.passed
            regression == report.performance_regression.regression_detected
        IN  /\ report.status \in {"failed", "warning", "passed"}
            /\ report.status = "failed" <=> ~gate_passed
            /\ report.status = "warning" <=> (gate_passed /\ regression)
            /\ report.status = "passed" <=> (gate_passed /\ ~regression)
            /\ report.quality_gate = pipeline_run.quality_gate_result
            /\ report.performance_regression = pipeline_run.regression_result

\* the gate failed and a regression was detected: 'failed'
C28_Witness ==
    /\ FullReport
    /\ ~pipeline_run.outcome.report.quality_gate.passed
    /\ pipeline_run.outcome.report.performance_regression.regression_detected
    /\ pipeline_run.outcome.report.status = "failed"

C28_WitnessWarning == FullReport /\ pipeline_run.outcome.report.status = "warning"

C28_WitnessPassed == FullReport /\ pipeline_run.outcome.report.status = "passed"

StageOrder == <<"Idle", "PreChecks", "Evaluating", "GateCheck", "RegressionCheck", "Reported">>

StageIndex(stage) == CHOOSE i \in DOMAIN StageOrder : StageOrder[i] = stage

\* C29: a run passes its stages only in the order Idle, PreChecks,
\* Evaluating, GateCheck, RegressionCheck, Reported: it enters a stage from
\* the stage before it, with the results of that stage (from PreChecks a run
\* whose pre-pipeline tests failed goes to Reported at once); it enters no
\* stage twice; in Reported the run is over.
C29_StagesInOrder ==
    InRun =>
        LET trace == pipeline_run.trace
        IN  /\ trace[1] = "Idle"
            /\ trace[Len(trace)] = pipeline_run.stage
            /\ \A i \in 1..(Len(trace) - 1) :
                   \/ StageIndex(trace[i + 1]) = StageIndex(trace[i]) + 1
                   \/ /\ trace[i] = "PreChecks"
                      /\ trace[i + 1] = "Reported"
                      /\ ~check_pre_pipeline_tests(pipeline_run.pre_results)
            /\ \A i, j \in DOMAIN trace : i < j => StageIndex(trace[i]) < StageIndex(trace[j])
            /\ pipeline_run.stage = "Evaluating" =>
                   check_pre_pipeline_tests(pipeline_run.pre_results)
            /\ pipeline_run.stage = "GateCheck" =>
                   /\ pipeline_run.evaluation_results # NoOutcome
                   /\ pipeline_run.quality_gate_result = NoOutcome
            /\ pipeline_run.stage = "RegressionCheck" =>
                   pipeline_run.quality_gate_result # NoOutcome
            /\ pipeline_run.stage = "Reported" <=> pipeline_run.outcome.kind = "returned"

\* a run that has passed all six stages
C29_Witness ==
    /\ InRun
    /\ pipeline_run.trace = StageOrder
    /\ pipeline_run.outcome.kind = "returned"

\* C30: run_evaluation_pipeline never raises: a fault in a stage is caught
\* and the run returns a report with status 'failed' and the stage's tag.
C30_NeverRaises ==
    InRun =>
        /\ pipeline_run.outcome.kind # "raised"
        /\ (pipeline_run.outcome.kind = "returned"
               /\ pipeline_run.trace # StageOrder) =>
              /\ pipeline_run.outcome.report.status = "failed"
              /\ "stage" \in DOMAIN pipeline_run.outcome.report

\* the entry run_evaluation_pipeline stores for a run that has returned
OwnEntry ==
    [results |-> pipeline_run.evaluation_results,
     quality_gate |-> pipeline_run.quality_gate_result,
     regression |-> pipeline_run.regression_result,
     pipeline_report |-> pipeline_run.outcome.report]

\* C31: every run of run_evaluation_pipeline appends exactly one entry to
\* evaluation_history, whatever its outcome: a run that is over has left the
\* history it was called with, extended by one entry.
C31_OneEntryPerRun ==
    (InRun /\ RunOver) =>
        /\ Len(evaluation_history) = Len(pipeline_run.history_at_call) + 1
        /\ SubSeq(evaluation_history, 1, Len(pipeline_run.history_at_call))
               = pipeline_run.history_at_call

PreTestsFailed == InRun /\ ~check_pre_pipeline_tests(pipeline_run.pre_results)

\* C36: if a record of the pre-pipeline integration tests has a status other
\* than 'success', the run returns a report with status 'failed' and stage
\* 'pre_pipeline' and nothing else happens: no evaluation, no firing of the
\* post-evaluation hooks, no gate check, no regression check, and
\* evaluation_history stays as it was.
C36_FailedPreTestsEndTheRun ==
    PreTestsFailed =>
        /\ pipeline_run.stage \in {"PreChecks", "Reported"}
        /\ pipeline_run.outcome.kind \in {"running", "returned"}
        /\ pipeline_run.stage = "Reported" =>
               /\ pipeline_run.outcome.kind = "returned"
               /\ pipeline_run.outcome.report.status = "failed"
               /\ pipeline_run.outcome.report.stage = "pre_pipeline"
               /\ pipeline_run.outcome.report.results = pipeline_run.pre_results
               /\ pipeline_run.trace = <<"Idle", "PreChecks", "Reported">>
        /\ pipeline_run.evaluation_results = NoOutcome
        /\ pipeline_run.post_results = <<>>
        /\ pipeline_run.quality_gate_result = NoOutcome
        /\ pipeline_run.regression_result = NoOutcome
        /\ evaluation_history = pipeline_run.history_at_call
        /\ \A k \in DOMAIN execution_history :
               execution_history[k].context = pipeline_runs =>
                   execution_history[k].hook_type = "integration_test"

\* a run after a completed one, ended by a failed integration test
C36_Witness ==
    /\ PreTestsFailed
    /\ pipeline_run.stage = "Reported"
    /\ Len(evaluation_history) = 1
    /\ \E i \in DOMAIN pipeline_run.pre_results : pipeline_run.pre_results[i].status = "failed"

\* C38: the regression check of a run compares its summary with the entries
\* of earlier runs only: the verdict is the one computed on the history the
\* run was called with, and the run's own entry is appended after the gate
\* check, the regression check and the report, as the last entry.
C38_OwnEntryAfterChecks ==
    InRun =>
        /\ pipeline_run.outcome.kind = "running" =>
               evaluation_history = pipeline_run.history_at_call
        /\ pipeline_run.regression_result # NoOutcome =>
               pipeline_run.regression_result =
                   check_performance_regression(quality_gate, pipeline_run.history_at_call,
                                                pipeline_run.evaluation_results)
        /\ FullReport =>
               evaluation_history = Append(pipeline_run.history_at_call, OwnEntry)

\* the third completed run: a baseline of 0.9 over the two earlier runs,
\* against which its own 0.2 is a regression
C38_Witness ==
    /\ FullReport
    /\ Len(evaluation_history) = 3
    /\ pipeline_run.regression_result.regression_detected
    /\ pipeline_run.regression_result.baseline_scores["helpfulness"] = ScoreFloat[90]
    /\ pipeline_run.evaluation_results.summary.average_scores["helpfulness"] = ScoreFloat[20]

Summarized == pc \in {"summarized", "checked"}

\* the places <<session, turn, item>> of the session results where a score
\* of the metric is found: an item of the metrics_scores of a 'success'
\* outcome that has a score, under a name that is the metric's up to case
ScorePlaces(metric) ==
    {p \in (1..Len(session_results)) \X (1..MaxScoreTurns) \X (1..MaxMetricItems) :
        /\ "results" \in DOMAIN session_results[p[1]]
        /\ p[2] <= Len(session_results[p[1]].results)
        /\ LET out == session_results[p[1]].results[p[2]]
           IN  /\ out.status = "success"
               /\ "results" \in DOMAIN out
               /\ "evaluation_results" \in DOMAIN out.results
               /\ "metrics_scores" \in DOMAIN out.results.evaluation_results
               /\ p[3] <= Len(out.results.evaluation_results.metrics_scores)
               /\ LET item == out.results.evaluation_results.metrics_scores[p[3]]
                  IN  /\ "score" \in DOMAIN item.metric_data
                      /\ lower(item.metric_name) = metric}

ScoreAt(p) ==
    session_results[p[1]].results[p[2]].results.evaluation_results
        .metrics_scores[p[3]].metric_data.score

PlaceBefore(p, q) ==
    \/ p[1] < q[1]
    \/ p[1] = q[1] /\ p[2] < q[2]
    \/ p[1] = q[1] /\ p[2] = q[2] /\ p[3] < q[3]

\* the scores found for the metric, in the order of their places
FoundScores(metric) ==
    [i \in 1..Cardinality(ScorePlaces(metric)) |->
        ScoreAt(CHOOSE p \in ScorePlaces(metric) :
                   Cardinality({q \in ScorePlaces(metric) : PlaceBefore(q, p)}) = i - 1)]

\* C34: the summary has an average score for each tracked metric and for no
\* other name; it is the mean (sum / count, in floats) of all scores found
\* for the metric in the result payloads of the 'success' outcomes of all
\* sessions, and 0 when no score was found.
C34_AverageOfFoundScores ==
    Summarized =>
        /\ DOMAIN summary.average_scores = SummaryMetrics
        /\ \A metric \in SummaryMetrics :
               summary.average_scores[metric] =
                   IF ScorePlaces(metric) = {} THEN FloatZero
                   ELSE float_div(float_sum(FoundScores(metric)),
                                  Cardinality(ScorePlaces(metric)))

\* a failed turn and a score 0.1 in one session, a score 0.7 under
\* 'Helpfulness' and an untracked metric in the other
C34_Witness ==
    /\ pc = "summarized"
    /\ Len(session_results[1].results) = 2
    /\ session_results[1].results[1].status = "failed"
    /\ ScorePlaces("helpfulness") = {<<1, 2, 1>>, <<2, 1, 1>>}
    /\ ScoreAt(<<2, 1, 1>>) = ScoreFloat[70]
    /\ session_results[2].results[1].results.evaluation_results.metrics_scores[2].metric_name
          = "coherence"
    /\ summary.average_scores["helpfulness"]
          = float_div(float_add(ScoreFloat[10], ScoreFloat[70]), 2)
    /\ summary.average_scores["overall"] = FloatZero
    /\ summary.successful_turns = 2

\* three scores of 0.1: sum / 3 in floats is 0.10000000000000002
C34_WitnessRounded ==
    /\ pc = "summarized"
    /\ Cardinality(ScorePlaces("helpfulness")) = 3
    /\ \A p \in ScorePlaces("helpfulness") : ScoreAt(p) = ScoreFloat[10]
    /\ float_lt(ScoreFloat[10], summary.average_scores["helpfulness"])

\* C39: the failed_turns check of the gate counts the outcomes with status
\* 'failed' only: it holds iff their number is at most max_failed_turns,
\* whatever the number of 'error' and 'exception' outcomes, so that a batch
\* whose turns all ended in 'error' passes it.
C39_FailedTurnsCountsFailedOnly ==
    pc = "checked" =>
        LET outs == TurnOutcomes(session_results)
            failed == Cardinality({i \in 1..Len(outs) : outs[i].status = "failed"})
        IN  /\ pipeline_run.quality_gate_result.actual_values.failed_turns = failed
            /\ pipeline_run.quality_gate_result.checks["failed_turns"]
                  <=> (failed <= quality_gate.max_failed_turns)
            /\ (\A i \in 1..Len(outs) : outs[i].status \in {"error", "exception"})
                  => pipeline_run.quality_gate_result.checks["failed_turns"]

\* three turns, all ended in 'error', under max_failed_turns = 0: the
\* failed_turns check holds (the gate fails on the success rate)
C39_Witness ==
    /\ pc = "checked"
    /\ quality_gate.max_failed_turns = 0
    /\ Len(TurnOutcomes(session_results)) = 3
    /\ \A i \in 1..3 : TurnOutcomes(session_results)[i].status = "error"
    /\ pipeline_run.quality_gate_result.checks["failed_turns"]
    /\ ~pipeline_run.quality_gate_result.passed

\* one turn ended 'failed' under max_failed_turns = 0: the check fails
C39_WitnessFailed ==
    /\ pc = "checked"
    /\ quality_gate.max_failed_turns = 0
    /\ summary.failed_turns = 1
    /\ summary.error_turns = 2
    /\ ~pipeline_run.quality_gate_result.checks["failed_turns"]

\* a turn spec that lacks the question or the evaluation-type tag
Malformed(turn_data) ==
    "question" \notin DOMAIN turn_data \/ "question_type" \notin DOMAIN turn_data

MalformedTrajectories ==
    {k \in 1..Len(pipeline_run.data_file) :
        \E i \in 1..Len(pipeline_run.data_file[k]) : Malformed(pipeline_run.data_file[k][i])}

\* C32: a turn spec without question or evaluation-type tag makes the
\* construction of its own unit fail and nothing else: the call does not end
\* with the fault, no session is built for a trajectory with such a turn,
\* one is built for every other trajectory, and the batch that returns has a
\* summary over those.
C32_MalformedTurnStaysLocal ==
    pc \in {"batch", "done", "raised"} =>
        /\ pc # "raised"
        /\ {sessions[s].trajectory_id : s \in Sessions}
              = (1..Len(pipeline_run.data_file)) \ MalformedTrajectories
        /\ pc = "done" => batch_return.summary = summary

\* the ordinals of the turns of session s collected with status 'success'
CollectedSuccesses(s) ==
    {sessions[s].turns[i].turn_id :
        i \in {i \in Turns(s) : turnState[s][i] = "collected"
                                  /\ future[s][i].status = "success"}}

\* C37: the keys of a session's context are ordinals of turns of that
\* session collected so far with status 'success'; a step that changes a
\* context is the collection of a 'success' outcome of a turn of that
\* session, which sets the entry under the ordinal of that turn and changes
\* nothing else in any context; the collection of a 'failed' or 'error'
\* outcome, and one that ends in an 'exception' outcome, changes no context.
C37_ContextWrittenOnSuccessOnly ==
    /\ [](\A s \in Sessions : DOMAIN context[s].entries \subseteq CollectedSuccesses(s))
    /\ [][\A s \in Sessions :
             context'[s] # context[s] =>
                 /\ \A r \in Sessions \ {s} : context'[r] = context[r]
                 /\ \E i \in Turns(s) :
                       /\ turnState[s][i] = "done"
                       /\ turnState'[s][i] = "collected"
                       /\ future[s][i].status = "success"
                       /\ results'[s] = Append(results[s], future[s][i])
                       /\ DOMAIN context'[s].entries
                             = DOMAIN context[s].entries \cup {sessions[s].turns[i].turn_id}
                       /\ \A k \in DOMAIN context[s].entries \ {sessions[s].turns[i].turn_id} :
                             context'[s].entries[k] = context[s].entries[k]]_vars

\* a session whose second turn has written its key, after its first turn
\* was collected with status 'error' and left the context as it was
C37_Witness ==
    \E s \in Sessions :
        /\ Len(results[s]) = 2
        /\ results[s][1].status = "error"
        /\ results[s][1].turn_id = 0
        /\ results[s][2].status = "success"
        /\ DOMAIN context[s].entries = {1}

\* a turn that ended in an 'exception' outcome (the session has no context
\* map): nothing was written
C37_WitnessException ==
    \E s \in Sessions :
        /\ context[s].is_none
        /\ \E k \in 1..Len(results[s]) : results[s][k].status = "exception"

\* two sessions of a batch with a key each
C37_WitnessTwoSessions ==
    /\ Len(sessions) = 2
    /\ DOMAIN context[1].entries = {0, 2}
    /\ DOMAIN context[2].entries = {0}

\* the ids of the sessions and turns a batch of the model can have
SessionIds == {1, 2}

Hangs(s, i) == s \in Sessions /\ i \in Turns(s) /\ sessions[s].turns[i].beh = "hang"

HasHang(s) == \E i \in Turns(s) : Hangs(s, i)

NoHang == \A s \in Sessions : ~HasHang(s)

\* run_concurrent_evaluations has returned
Returns ==
    /\ pc = "done"
    /\ batch_return # NoSummary
    /\ \A s \in Sessions :
          ~pool_fault[s] => \A i \in Turns(s) : turnState[s][i] = "collected"

\* C35: if every evaluator call returns or raises, run_concurrent_evaluations
\* returns at last, with every turn of every session that ran evaluated and
\* collected, for one and for more batch workers, also with more sessions
\* than batch workers and more turns than workers of the session's pool.
C35_BatchReturns == NoHang => <>Returns

\* a returned batch of two sessions over one batch worker, the first with
\* one turn more than its pool has workers
C35_Witness ==
    /\ pc = "done"
    /\ max_workers = 1
    /\ Len(sessions) = 2
    /\ Len(sessions[1].turns) > sessions[1].max_concurrent_turns
    /\ batch_return.summary.total_turns = Len(sessions[1].turns) + 1

====
